---- MODULE Spec2Model ----
(***************************************************************************)
(* A model of the job-board backend (crawlingWeb): the MySQL tables as the *)
(* state, one action per awaited round trip of each route handler, and the *)
(* batch ingestion script insertData.js.                                   *)
(*                                                                         *)
(* The table definitions (createTables.js) and the query helpers           *)
(* (Model/executeDB.js) are not among the source files; the unique keys,   *)
(* the cascade on delete and the transaction helper are modelled from the  *)
(* specification's data model and are marked as such where they appear.    *)
(* Timestamps written with NOW() are not modelled.                         *)
(***************************************************************************)
EXTENDS Integers, Sequences, FiniteSets, TLC

\* db:   the database
\* req:  the in-flight request of each slot, between two of its round trips
\* last: the latest response sent (of the batch script: the latest record's
\*       outcome), numbered
\* hist: history kept for the properties: requests started, successful
\*       bookmark toggles per (user, posting), successful detail reads per
\*       posting and the view counts the postings started from
VARIABLES db, req, last, hist

vars == <<db, req, last, hist>>

(***************************************************************************)
(* Bounds of the model.                                                    *)
(***************************************************************************)
\* Operations on postings (ingested records and /jobs requests) in a run.
MaxJobOps == 3
\* Records of a batch run.
MaxRecords == 5
\* /bookmarks requests in a run.
MaxToggles == 5
\* /applications requests in a run.
MaxApplyOps == 4
\* GET /jobs/:id requests in a run.
MaxReads == 4
\* POST /jobs (list) requests in a run.
MaxListOps == 1
\* GET /recommendations requests in a run.
MaxRecommendOps == 1
\* Requests sent to GET /recommendations/pay.
MaxPayOps == 1
\* Parts a salary text is put together from.
MaxSalaryParts == 3
\* Requests that arrive at the authentication middleware in a run.
MaxGateOps == 3
\* Requests sent to GET /recommendations/popular.
MaxPopularOps == 1
\* Requests of a run of applications, bookmarks and recommendations.
MaxExclusionOps == 3
\* Field texts parsed in a run.
MaxParseOps == 1
\* Parts a field text is put together from.
MaxTextParts == 3

\* The user ids that hold a valid bearer token.
Users == {1, 2}
\* Concurrent in-flight requests (the handlers are async; each awaits its
\* round trips and other requests run in between).
Slots == {"r1", "r2"}

\* The four values of applications.status.
\* (in the source: the Korean words for "applying", "cancelled", "hired" and
\* "rejected"; the module keeps to ASCII.)
Applying == "applying"
Cancelled == "cancelled"
Hired == "hired"
Rejected == "rejected"

(***************************************************************************)
(* Generic helpers.                                                        *)
(***************************************************************************)
\* The rows of a table that satisfy a WHERE clause on one column.
RowsWhere(rows, col, v) == {r \in rows : r[col] = v}

(***************************************************************************)
(* The database.  db is a record of tables; a table is a set of rows, and  *)
(* db.autoinc holds each table's AUTO_INCREMENT counter.  No route reads   *)
(* bookmark_id, so a bookmarks row carries, in its place, its rank among   *)
(* the rows of its (user_id, job_posting_id) pair (copy = 1, 2, ...).      *)
(***************************************************************************)
DimTables == {"companies", "educations", "experiences", "locations", "sectors",
              "employment_types"}

EmptyDB ==
    [companies |-> {}, educations |-> {}, experiences |-> {}, locations |-> {},
     sectors |-> {}, employment_types |-> {},
     job_postings |-> {},
     job_posting_experiences |-> {}, job_posting_locations |-> {},
     job_posting_sectors |-> {}, job_posting_employment_types |-> {},
     bookmarks |-> {},
     applications |-> {},
     autoinc |-> [t \in DimTables \cup {"job_postings", "applications"} |-> 1]]

(***************************************************************************)
(* Text.  A string of the scraped data is a sequence of characters, each   *)
(* character a one-element token; the Korean syllables of the source are   *)
(* written as ASCII tokens: "SU","JEONG","IL" (modified-date marker),      *)
(* "DEUNG","ROK","IL" (posted-date marker), "OE" (the "etc." sentinel),    *)
(* "MID" (the middle dot).                                                 *)
(***************************************************************************)
Digits == {"0", "1", "2", "3", "4", "5", "6", "7", "8", "9"}

DigitVal(c) ==
    CASE c = "0" -> 0 [] c = "1" -> 1 [] c = "2" -> 2 [] c = "3" -> 3
      [] c = "4" -> 4 [] c = "5" -> 5 [] c = "6" -> 6 [] c = "7" -> 7
      [] c = "8" -> 8 [] c = "9" -> 9

\* JavaScript's \s, as far as the model's alphabet goes.
IsSpace(c) == c = " "

\* String.prototype.trim
RECURSIVE TrimLeft(_)
TrimLeft(s) == IF s # <<>> /\ IsSpace(Head(s)) THEN TrimLeft(Tail(s)) ELSE s

RECURSIVE TrimRight(_)
TrimRight(s) ==
    IF s # <<>> /\ IsSpace(s[Len(s)]) THEN TrimRight(SubSeq(s, 1, Len(s) - 1)) ELSE s

Trim(s) == TrimRight(TrimLeft(s))

\* The characters of the titles and company names of the model.
Chars(text) ==
    CASE text = "Backend" -> <<"B", "a", "c", "k", "e", "n", "d">>
      [] text = "Frontend" -> <<"F", "r", "o", "n", "t", "e", "n", "d">>
      [] text = "Data" -> <<"D", "a", "t", "a">>
      [] text = "Acme" -> <<"A", "c", "m", "e">>
      [] text = "Beta" -> <<"B", "e", "t", "a">>
      [] OTHER -> <<"?">>

\* The value of the digits a text begins with, 0 when there are none.
RECURSIVE LeadingDigits(_, _)
LeadingDigits(text, acc) ==
    IF text # <<>> /\ Head(text) \in Digits
    THEN LeadingDigits(Tail(text), 10 * acc + DigitVal(Head(text)))
    ELSE acc

\* CAST(text AS UNSIGNED), for a text without a sign: leading spaces are
\* skipped, the digits that follow are the value, the rest is ignored.
CastUnsigned(text) == LeadingDigits(TrimLeft(text), 0)

\* String.prototype.split on a character class: the pieces between the
\* delimiters, empty pieces included.
RECURSIVE SplitAcc(_, _, _)
SplitAcc(s, delims, cur) ==
    IF s = <<>> THEN <<cur>>
    ELSE IF Head(s) \in delims THEN <<cur>> \o SplitAcc(Tail(s), delims, <<>>)
    ELSE SplitAcc(Tail(s), delims, Append(cur, Head(s)))

Split(s, delims) == SplitAcc(s, delims, <<>>)

\* Array.prototype.map(trim) and Array.prototype.filter
MapTrim(a) == [i \in 1..Len(a) |-> Trim(a[i])]

RECURSIVE FilterOut(_, _)
FilterOut(a, banned) ==
    IF a = <<>> THEN <<>>
    ELSE IF Head(a) \in banned THEN FilterOut(Tail(a), banned)
    ELSE <<Head(a)>> \o FilterOut(Tail(a), banned)

\* parseMultiValueField: split on comma and middle dot, trim, drop empties.
parseMultiValueField(fieldValue) ==
    FilterOut(MapTrim(Split(fieldValue, {",", "MID"})), {<<>>})

\* SQL NULL / JavaScript null.
Null == "NULL"

\* The two date markers of the sector field.
DateMarkers == {<<"SU", "JEONG", "IL">>, <<"DEUNG", "ROK", "IL">>}

\* Index of the first non-space character of s at or after i (Len(s) + 1 if none).
RECURSIVE SkipSpaces(_, _)
SkipSpaces(s, i) == IF i <= Len(s) /\ IsSpace(s[i]) THEN SkipSpaces(s, i + 1) ELSE i

\* Whether /(marker)\s*(\d{2})\/(\d{2})\/(\d{2})/ matches s starting at i.
MatchesAt(s, i) ==
    /\ i + 2 <= Len(s)
    /\ SubSeq(s, i, i + 2) \in DateMarkers
    /\ LET j == SkipSpaces(s, i + 3)
       IN /\ j + 7 <= Len(s)
          /\ \A k \in {0, 1, 3, 4, 6, 7} : s[j + k] \in Digits
          /\ s[j + 2] = "/"
          /\ s[j + 5] = "/"

\* String.prototype.match: the leftmost match, 0 for none.
MatchStart(s) ==
    IF \E i \in 1..Len(s) : MatchesAt(s, i)
    THEN CHOOSE i \in 1..Len(s) : MatchesAt(s, i) /\ \A k \in 1..(i - 1) : ~MatchesAt(s, k)
    ELSE 0

TwoDigits(s, j) == 10 * DigitVal(s[j]) + DigitVal(s[j + 1])

DaysInMonth(y, m) ==
    IF m = 2 THEN (IF y % 4 = 0 /\ (y % 100 # 0 \/ y % 400 = 0) THEN 29 ELSE 28)
    ELSE IF m \in {4, 6, 9, 11} THEN 30 ELSE 31

Pad2(n) == IF n < 10 THEN "0" \o ToString(n) ELSE ToString(n)

\* moment(`${year}-${month}-${day}`, 'YYYY-MM-DD').format('YYYY-MM-DD')
MomentFormat(y, m, d) ==
    IF m \in 1..12 /\ d \in 1..DaysInMonth(y, m)
    THEN ToString(y) \o "-" \o Pad2(m) \o "-" \o Pad2(d)
    ELSE "Invalid date"

\* parseSectorsAndModifiedDate: the date after a marker, if any, and the
\* comma-separated sectors of the text with the matched marker removed.
parseSectorsAndModifiedDate(sectorStr) ==
    LET i == MatchStart(sectorStr)
        j == SkipSpaces(sectorStr, i + 3)
        lastModifiedDate ==
            IF i = 0 THEN Null
            ELSE MomentFormat(TwoDigits(sectorStr, j) + 2000,
                              TwoDigits(sectorStr, j + 3), TwoDigits(sectorStr, j + 6))
        rest ==
            IF i = 0 THEN sectorStr
            ELSE SubSeq(sectorStr, 1, i - 1) \o SubSeq(sectorStr, j + 8, Len(sectorStr))
    IN [sectorsArray |-> FilterOut(MapTrim(Split(rest, {","})), {<<>>, <<"OE">>}),
        lastModifiedDate |-> lastModifiedDate]

(***************************************************************************)
(* SQL statements.  Dimension rows are [id, name] (company_id and          *)
(* company_name, education_id and education_level, ...); junction rows are *)
(* [job_posting_id, ref_id].  A NULL id is 0: AUTO_INCREMENT starts at 1.  *)
(***************************************************************************)
NullId == 0

\* Faulty variant: the bookmarks table has no unique key on (user, posting).
UniqueKeys_NoBookmarkKey(table) ==
    CASE table \in DimTables -> {{"name"}}
      [] table = "job_postings" -> {{"link"}, {"link_hash"}}
      [] table = "bookmarks" -> {}
      [] table = "applications" -> {{"user_id", "job_posting_id"}}
      [] OTHER -> {{"job_posting_id", "ref_id"}}

\* Faulty variant: the applications table has no unique key on (user, posting).
UniqueKeys_NoApplicationKey(table) ==
    CASE table \in DimTables -> {{"name"}}
      [] table = "job_postings" -> {{"link"}, {"link_hash"}}
      [] table = "bookmarks" -> {{"user_id", "job_posting_id"}}
      [] table = "applications" -> {}
      [] OTHER -> {{"job_posting_id", "ref_id"}}

\* The unique keys of each table, from the specification's data model
\* (the CREATE TABLE statements are not among the source files).
UniqueKeys(table) ==
    CASE table \in DimTables -> {{"name"}}
      [] table = "job_postings" -> {{"link"}, {"link_hash"}}
      [] table = "bookmarks" -> {{"user_id", "job_posting_id"}}
      [] table = "applications" -> {{"user_id", "job_posting_id"}}
      [] OTHER -> {{"job_posting_id", "ref_id"}}

\* ER_DUP_ENTRY: a row of the table agrees with the new row on a unique key.
DuplicateKey(d, table, row) ==
    \E r \in d[table], k \in UniqueKeys(table) : \A c \in k : r[c] = row[c]

\* rows[0]?.id of SELECT id FROM table WHERE name = ?  (0 for undefined).
SelectId(d, table, name) ==
    LET rows == RowsWhere(d[table], "name", name)
    IN IF rows = {} THEN NullId
       ELSE (CHOOSE r \in rows : \A q \in rows : r.id <= q.id).id

\* INSERT IGNORE INTO table (name) VALUES (?)
InsertIgnoreDim(d, table, name) ==
    LET row == [id |-> d.autoinc[table], name |-> name]
    IN IF DuplicateKey(d, table, row) THEN d
       ELSE [d EXCEPT ![table] = @ \cup {row}, !.autoinc[table] = @ + 1]

\* INSERT IGNORE INTO junction (job_posting_id, x_id) VALUES (?, ?)
InsertIgnoreJunction(d, table, jobPostingId, refId) ==
    LET row == [job_posting_id |-> jobPostingId, ref_id |-> refId]
    IN IF DuplicateKey(d, table, row) THEN d ELSE [d EXCEPT ![table] = @ \cup {row}]

\* The batch path's get-or-create of one label: INSERT IGNORE, then SELECT.
ResolveBatch(d, table, name) ==
    LET d1 == InsertIgnoreDim(d, table, name)
    IN [db |-> d1, id |-> SelectId(d1, table, name)]

\* crypto.createHash('sha256').update(text).digest('hex'), for the links
\* (and the scraped titles) of the model.
Sha256Hex(link) ==
    CASE link = "https://a" -> "44f833239a3830c06cd05a0469cc989dd02c561f2fd1be7c5379b74ccfa78ad6"
      [] link = "https://b" -> "4d50e35b22de0e2eac6a64d75133f4010bf9d1cc36832f52740cf42e56d237b3"
      [] link = "https://c" -> "f399dc860cca6c99ab206b9dac96a83eafb4a46d40b97edd3d050d5203668410"
      [] link = "Backend" -> "2fb4019a35e427e8d595c79fe996407a01031a9e00ed0a7d174bfb1a0e455b90"
      [] link = "Frontend" -> "af48bcf0b9511b39b91b89c70abfbcdc587d3f91b224a24f683d854846ae9c36"
      [] link = "Data" -> "cec3a9b89b2e391393d0f68e4bc12a9fa6cf358b3cdf79496dc442d52b8dd528"

(***************************************************************************)
(* insertData.js: the body of the loop over the scraped records.  A record *)
(* is [company, title, link, edu, deadline, salary, exp, loc, emp, sector] *)
(* (the scraper's Korean keys); exp, loc and sector are raw multi-value    *)
(* text.  There is no transaction: a throw leaves what was written.        *)
(***************************************************************************)
\* for (const x of names) { INSERT IGNORE dimension; SELECT id;
\*                         if (id) INSERT IGNORE junction }
RECURSIVE LinkAllBatch(_, _, _, _, _)
LinkAllBatch(d, table, junction, jobPostingId, names) ==
    IF names = <<>> THEN d
    ELSE LET r == ResolveBatch(d, table, Head(names))
             d1 == IF r.id # NullId
                   THEN InsertIgnoreJunction(r.db, junction, jobPostingId, r.id)
                   ELSE r.db
         IN LinkAllBatch(d1, table, junction, jobPostingId, Tail(names))

\* Faulty variant: the digest is taken of the wrong field of the record.
BatchLinkHash_OfTitle(data) == Sha256Hex(data.title)

\* The link hash the batch path stores with a record.
BatchLinkHash(data) == Sha256Hex(data.link)

\* INSERT IGNORE INTO job_postings (company_id, title, link, link_hash,
\*   education_id, deadline, last_modified_date, salary)
InsertIgnoreJobPosting(d, data, companyId, educationId, linkHash, lastModifiedDate) ==
    LET row == [job_posting_id |-> d.autoinc["job_postings"], user_id |-> NullId,
                company_id |-> companyId, title |-> data.title, link |-> data.link,
                link_hash |-> linkHash, education_id |-> educationId,
                employment_type_id |-> NullId, deadline |-> data.deadline,
                last_modified_date |-> lastModifiedDate, salary |-> data.salary,
                views |-> 0]
    IN IF DuplicateKey(d, "job_postings", row) THEN d
       ELSE [d EXCEPT !.job_postings = @ \cup {row}, !.autoinc["job_postings"] = @ + 1]

\* jobPostingRows[0]?.job_posting_id of SELECT ... WHERE link_hash = ?
SelectJobPostingIdByHash(d, linkHash) ==
    LET rows == RowsWhere(d.job_postings, "link_hash", linkHash)
    IN IF rows = {} THEN NullId
       ELSE (CHOOSE r \in rows : \A q \in rows : r.job_posting_id <= q.job_posting_id).job_posting_id

\* UPDATE job_postings SET col = v WHERE job_posting_id = ?
UpdateJobPosting(d, jobPostingId, col, v) ==
    [d EXCEPT !.job_postings =
        {IF r.job_posting_id = jobPostingId THEN [r EXCEPT ![col] = v] ELSE r : r \in @}]

\* The employment-type block of a record.
BatchEmploymentType(d, data, jobPostingId) ==
    IF data.emp = "" THEN d
    ELSE LET r == ResolveBatch(d, "employment_types", data.emp)
         IN IF r.id = NullId THEN r.db
            ELSE InsertIgnoreJunction(
                     UpdateJobPosting(r.db, jobPostingId, "employment_type_id", r.id),
                     "job_posting_employment_types", jobPostingId, r.id)

\* One iteration of the loop: [db, error], error "" when the record went through.
insertRecord(d, data) ==
    LET c == ResolveBatch(d, "companies", data.company)
        d2 == IF data.edu # "" THEN InsertIgnoreDim(c.db, "educations", data.edu) ELSE c.db
        educationId == SelectId(d2, "educations", data.edu)
        parsed == parseSectorsAndModifiedDate(data.sector)
        linkHash == BatchLinkHash(data)
        d3 == InsertIgnoreJobPosting(d2, data, c.id, educationId, linkHash,
                                     parsed.lastModifiedDate)
        jobPostingId == SelectJobPostingIdByHash(d3, linkHash)
        d4 == LinkAllBatch(d3, "experiences", "job_posting_experiences", jobPostingId,
                           parseMultiValueField(data.exp))
        d5 == LinkAllBatch(d4, "locations", "job_posting_locations", jobPostingId,
                           parseMultiValueField(data.loc))
        d6 == BatchEmploymentType(d5, data, jobPostingId)
        d7 == LinkAllBatch(d6, "sectors", "job_posting_sectors", jobPostingId,
                           parsed.sectorsArray)
    IN IF c.id = NullId THEN [db |-> c.db, error |-> "company_id"]
       ELSE IF jobPostingId = NullId THEN [db |-> d3, error |-> "job_posting_id"]
       ELSE [db |-> d7, error |-> ""]

(***************************************************************************)
(* executeTransaction(queries), from the specification (Model/executeDB.js *)
(* is not among the source files): the statements run in order on one      *)
(* connection inside one transaction; a failing statement rolls everything *)
(* back and the call throws; otherwise the results are returned.  A        *)
(* context is [db, lastId, insertId, failed]: lastId is the connection's   *)
(* LAST_INSERT_ID(), insertId the insertId of the latest result.           *)
(***************************************************************************)
\* The foreign keys of a job_postings row and of a junction row, from the
\* specification's data model ("references to one Company, ...").
JobPostingRefsOk(d, row) ==
    /\ \E c \in d.companies : c.id = row.company_id
    /\ row.education_id = NullId \/ \E e \in d.educations : e.id = row.education_id
    /\ row.employment_type_id = NullId
         \/ \E t \in d.employment_types : t.id = row.employment_type_id

JunctionRefsOk(d, dimTable, row) ==
    /\ \E j \in d.job_postings : j.job_posting_id = row.job_posting_id
    /\ \E x \in d[dimTable] : x.id = row.ref_id

\* The dimension table a junction table points to.
DimOf(junction) ==
    CASE junction = "job_posting_experiences" -> "experiences"
      [] junction = "job_posting_locations" -> "locations"
      [] junction = "job_posting_sectors" -> "sectors"
      [] junction = "job_posting_employment_types" -> "employment_types"

\* Faulty variant: ON DUPLICATE KEY UPDATE without LAST_INSERT_ID(id): for a label
\* that exists, LAST_INSERT_ID() is not set to its row's id.
UpsertDim_StaleId(d, table, name) ==
    LET row == [id |-> d.autoinc[table], name |-> name]
    IN IF DuplicateKey(d, table, row)
       THEN [db |-> d, id |-> 0]
       ELSE [db |-> [d EXCEPT ![table] = @ \cup {row}, !.autoinc[table] = @ + 1],
             id |-> row.id]

\* INSERT INTO t (name) VALUES (?) ON DUPLICATE KEY UPDATE id = LAST_INSERT_ID(id):
\* the API path's get-or-create; the id is left in LAST_INSERT_ID().
UpsertDim(d, table, name) ==
    LET row == [id |-> d.autoinc[table], name |-> name]
    IN IF DuplicateKey(d, table, row)
       THEN [db |-> d, id |-> SelectId(d, table, name)]
       ELSE [db |-> [d EXCEPT ![table] = @ \cup {row}, !.autoinc[table] = @ + 1],
             id |-> row.id]

\* One statement of a transaction.
ExecStatement(ctx, q) ==
    LET d == ctx.db
        fail == [ctx EXCEPT !.failed = TRUE]
    IN CASE q.kind = "select" -> [ctx EXCEPT !.insertId = 0]
         [] q.kind = "upsertDim" ->
              LET r == UpsertDim(d, q.table, q.name)
              IN [ctx EXCEPT !.db = r.db, !.lastId = r.id, !.insertId = r.id]
         [] q.kind = "updateJob" ->
              LET v == IF q.useLastId THEN ctx.lastId ELSE q.value
                  d1 == UpdateJobPosting(d, q.id, q.col, v)
                  others == [d EXCEPT !.job_postings =
                                {r \in @ : r.job_posting_id # q.id}]
              IN IF \E r \in d1.job_postings :
                       /\ r.job_posting_id = q.id
                       /\ \/ ~JobPostingRefsOk(d1, r)
                          \/ q.col \in {"link", "link_hash"}
                               /\ DuplicateKey(others, "job_postings", r)
                 THEN fail
                 ELSE [ctx EXCEPT !.db = d1, !.insertId = 0]
         [] q.kind = "insertJob" ->
              LET row == [q.row EXCEPT !.job_posting_id = d.autoinc["job_postings"],
                                       !.company_id = ctx.lastId,
                                       !.education_id = ctx.lastId,
                                       !.employment_type_id = ctx.lastId]
              IN IF DuplicateKey(d, "job_postings", row) \/ ~JobPostingRefsOk(d, row)
                 THEN fail
                 ELSE [ctx EXCEPT !.db = [d EXCEPT !.job_postings = @ \cup {row},
                                                   !.autoinc["job_postings"] = @ + 1],
                                  !.lastId = row.job_posting_id,
                                  !.insertId = row.job_posting_id]
         [] q.kind = "deleteJunction" ->
              [ctx EXCEPT !.db = [d EXCEPT ![q.table] =
                                    {r \in @ : r.job_posting_id # q.id}],
                          !.insertId = 0]
         [] q.kind = "insertJunction" ->
              LET row == [job_posting_id |-> q.id, ref_id |-> ctx.lastId]
              IN IF DuplicateKey(d, q.table, row) \/ ~JunctionRefsOk(d, DimOf(q.table), row)
                 THEN fail
                 ELSE [ctx EXCEPT !.db = [d EXCEPT ![q.table] = @ \cup {row}],
                                  !.insertId = 0]

RECURSIVE ExecAll(_, _)
ExecAll(ctx, queries) ==
    IF queries = <<>> \/ ctx.failed THEN ctx
    ELSE ExecAll(ExecStatement(ctx, Head(queries)), Tail(queries))

\* Faulty variant: a failing statement ends the call without a rollback.
executeTransaction_NoRollback(d, queries) ==
    LET ctx == ExecAll([db |-> d, lastId |-> 0, insertId |-> 0, failed |-> FALSE], queries)
    IN IF ctx.failed THEN [db |-> ctx.db, insertId |-> 0, failed |-> TRUE]
       ELSE [db |-> ctx.db, insertId |-> ctx.insertId, failed |-> FALSE]

\* [db, insertId, failed]: the database after the call (the one before it
\* when a statement failed), the last result's insertId, whether it threw.
executeTransaction(d, queries) ==
    LET ctx == ExecAll([db |-> d, lastId |-> 0, insertId |-> 0, failed |-> FALSE], queries)
    IN IF ctx.failed THEN [db |-> d, insertId |-> 0, failed |-> TRUE]
       ELSE [db |-> ctx.db, insertId |-> ctx.insertId, failed |-> FALSE]

(***************************************************************************)
(* jobsAPI.js.  A request body is [companyName, title, link,               *)
(* educationLevel, deadline, locationNames, sectorNames, employmentType,   *)
(* salary]; a string field that was not sent is "" (both are falsy), an    *)
(* array field is [present, names] (an empty array is truthy).             *)
(***************************************************************************)
Absent == [present |-> FALSE, names |-> <<>>]
Names(a) == [present |-> TRUE, names |-> a]

Select == [kind |-> "select"]
Upsert(table, name) == [kind |-> "upsertDim", table |-> table, name |-> name]
SetLastId(id, col) ==
    [kind |-> "updateJob", id |-> id, col |-> col, useLastId |-> TRUE, value |-> 0]
SetValue(id, col, v) ==
    [kind |-> "updateJob", id |-> id, col |-> col, useLastId |-> FALSE, value |-> v]
\* Faulty variant: the DELETE's WHERE clause matches no posting, so the new
\* associations are added to the earlier ones.
DeleteJunction_OfNoPosting(table, id) ==
    [kind |-> "deleteJunction", table |-> table, id |-> NullId]

DeleteJunction(table, id) == [kind |-> "deleteJunction", table |-> table, id |-> id]
InsertJunction(table, id) == [kind |-> "insertJunction", table |-> table, id |-> id]

\* names.forEach: get-or-create the label, then link it to the posting.
RECURSIVE LinkQueries(_, _, _, _)
LinkQueries(table, junction, id, names) ==
    IF names = <<>> THEN <<>>
    ELSE <<Upsert(table, Head(names)), InsertJunction(junction, id)>>
         \o LinkQueries(table, junction, id, Tail(names))

\* The value UPDATE ... SET last_modified_date = CURRENT_TIMESTAMP stores.
CurrentTimestamp == "CURRENT_TIMESTAMP"

\* router.put('/:id'): the statements pushed for one request.
PutQueries(id, userId, body) ==
    <<Select, Select>>
    \o (IF body.companyName # ""
        THEN <<Upsert("companies", body.companyName), SetLastId(id, "company_id")>>
        ELSE <<>>)
    \o (IF body.title # "" THEN <<SetValue(id, "title", body.title)>> ELSE <<>>)
    \o (IF body.link # "" THEN <<SetValue(id, "link", body.link)>> ELSE <<>>)
    \o (IF body.educationLevel # ""
        THEN <<Upsert("educations", body.educationLevel), SetLastId(id, "education_id")>>
        ELSE <<>>)
    \o (IF body.deadline # "" THEN <<SetValue(id, "deadline", body.deadline)>> ELSE <<>>)
    \o (IF body.employmentType # ""
        THEN <<Upsert("employment_types", body.employmentType),
               SetLastId(id, "employment_type_id")>>
        ELSE <<>>)
    \o (IF body.salary # "" THEN <<SetValue(id, "salary", body.salary)>> ELSE <<>>)
    \o (IF body.locationNames.present
        THEN <<DeleteJunction("job_posting_locations", id)>>
             \o LinkQueries("locations", "job_posting_locations", id,
                            body.locationNames.names)
        ELSE <<>>)
    \o (IF body.sectorNames.present
        THEN <<DeleteJunction("job_posting_sectors", id)>>
             \o LinkQueries("sectors", "job_posting_sectors", id, body.sectorNames.names)
        ELSE <<>>)
    \o <<SetValue(id, "last_modified_date", CurrentTimestamp)>>

\* router.put('/:id'): [db, code].
putJob(d, userId, id, body) ==
    IF /\ body.companyName = "" /\ body.title = "" /\ body.link = ""
       /\ body.educationLevel = "" /\ body.deadline = ""
       /\ ~body.locationNames.present /\ ~body.sectorNames.present
       /\ body.employmentType = "" /\ body.salary = ""
    THEN [db |-> d, code |-> 400]
    ELSE LET t == executeTransaction(d, PutQueries(id, userId, body))
         IN IF t.failed THEN [db |-> t.db, code |-> 500] ELSE [db |-> t.db, code |-> 200]

\* The salary stored when the request sends none (the source's Korean
\* placeholder, "to be negotiated").
SalaryPlaceholder == "negotiable"

\* REPLACE(text, ' ', '') of the duplicate check's WHERE clause, for the
\* titles and links of the model (one title has a space).
RemoveSpaces(text) == IF text = "Back end" THEN "Backend" ELSE text

\* The rows of SELECT job_posting_id FROM job_postings WHERE
\* REPLACE(title, ' ', '') = REPLACE(?, ' ', '') AND REPLACE(link, ' ', '') =
\* REPLACE(?, ' ', '').
SelectDuplicates(d, title, link) ==
    {r \in d.job_postings : /\ RemoveSpaces(r.title) = RemoveSpaces(title)
                            /\ RemoveSpaces(r.link) = RemoveSpaces(link)}

\* router.post('/create'): the first transaction's statements.
CreateQueries(userId, body) ==
    <<Select,
      Upsert("companies", body.companyName),
      Upsert("educations", body.educationLevel),
      Upsert("employment_types", body.employmentType),
      [kind |-> "insertJob",
       row |-> [job_posting_id |-> 0, user_id |-> userId, company_id |-> 0,
                title |-> body.title, link |-> body.link,
                link_hash |-> Sha256Hex(body.link), education_id |-> 0,
                employment_type_id |-> 0, deadline |-> body.deadline,
                last_modified_date |-> Null,
                salary |-> IF body.salary # "" THEN body.salary ELSE SalaryPlaceholder,
                views |-> 0]]>>

\* for (const name of names) await executeTransaction([upsert, link]):
\* one transaction per name; the first that throws ends the loop.
RECURSIVE LinkEach(_, _, _, _, _)
LinkEach(d, table, junction, id, names) ==
    IF names = <<>> THEN [db |-> d, failed |-> FALSE]
    ELSE LET t == executeTransaction(d, LinkQueries(table, junction, id, <<Head(names)>>))
         IN IF t.failed THEN [db |-> t.db, failed |-> TRUE]
            ELSE LinkEach(t.db, table, junction, id, Tail(names))

\* router.post('/create'): [db, code, id].
createJob(d, userId, body) ==
    IF \/ body.companyName = "" \/ body.title = "" \/ body.link = ""
       \/ body.educationLevel = "" \/ body.deadline = ""
       \/ ~body.locationNames.present \/ ~body.sectorNames.present
       \/ body.employmentType = ""
    THEN [db |-> d, code |-> 400, id |-> 0]
    ELSE LET t == executeTransaction(d, CreateQueries(userId, body))
             l == LinkEach(t.db, "locations", "job_posting_locations", t.insertId,
                           body.locationNames.names)
             c == LinkEach(l.db, "sectors", "job_posting_sectors", t.insertId,
                           body.sectorNames.names)
         IN IF t.failed THEN [db |-> t.db, code |-> 500, id |-> 0]
            ELSE IF t.insertId = 0 THEN [db |-> t.db, code |-> 400, id |-> 0]
            ELSE IF l.failed THEN [db |-> l.db, code |-> 500, id |-> 0]
            ELSE IF c.failed THEN [db |-> c.db, code |-> 500, id |-> 0]
            ELSE [db |-> c.db, code |-> 201, id |-> t.insertId]

\* DELETE FROM job_postings WHERE job_posting_id = ?
DeleteJobPosting(d, id) ==
    [d EXCEPT !.job_postings = {r \in @ : r.job_posting_id # id}]

\* The cascade of that DELETE to the rows that reference the posting (from
\* the specification: "removed via the relational cascade").
CascadeFromPosting(d, id) ==
    [d EXCEPT !.job_posting_experiences = {r \in @ : r.job_posting_id # id},
              !.job_posting_locations = {r \in @ : r.job_posting_id # id},
              !.job_posting_sectors = {r \in @ : r.job_posting_id # id},
              !.job_posting_employment_types = {r \in @ : r.job_posting_id # id},
              !.bookmarks = {r \in @ : r.job_posting_id # id},
              !.applications = {r \in @ : r.job_posting_id # id}]

\* Faulty variant: the ownership test is left out.
NotOwner_Unchecked(job, userId) == FALSE

\* The ownership test of router.delete('/:id'): job[0].user_id !== userId.
NotOwner(job, userId) == job.user_id # userId

\* router.delete('/:id'): [db, code].
deleteJob(d, userId, id) ==
    LET job == RowsWhere(d.job_postings, "job_posting_id", id)
    IN IF job = {} THEN [db |-> d, code |-> 404]
       ELSE IF NotOwner(CHOOSE r \in job : TRUE, userId) THEN [db |-> d, code |-> 403]
       ELSE [db |-> CascadeFromPosting(DeleteJobPosting(d, id), id), code |-> 200]

(***************************************************************************)
(* The inputs of the model.                                                *)
(***************************************************************************)
ModifiedMarker == <<"SU", "JEONG", "IL">>

\* Scraped records: the second has the link of the first and differs in
\* every other field; the fourth has the title of the first and its own link.
Records ==
    <<[company |-> "Acme", title |-> "Backend", link |-> "https://a", edu |-> "BSc",
       deadline |-> "12/31", salary |-> "5,000", exp |-> <<"N", "MID", "X">>,
       loc |-> <<"S", ",", " ", "B">>, emp |-> "Full",
       sector |-> <<"I", ",", "W", ",", "OE", " ">> \o ModifiedMarker
                   \o <<" ", "2", "4", "/", "0", "3", "/", "1", "5">>],
      [company |-> "Beta", title |-> "Frontend", link |-> "https://a", edu |-> "",
       deadline |-> "01/15", salary |-> "3,000", exp |-> <<"X">>,
       loc |-> <<"D">>, emp |-> "Part", sector |-> <<"W", ",", "Q">>],
      [company |-> "Acme", title |-> "Data", link |-> "https://b", edu |-> "MSc",
       deadline |-> "02/01", salary |-> "4,000", exp |-> <<"N">>,
       loc |-> <<"S">>, emp |-> "", sector |-> <<"I">>],
      [company |-> "Beta", title |-> "Backend", link |-> "https://c", edu |-> "BSc",
       deadline |-> "02/15", salary |-> "negotiable", exp |-> <<>>,
       loc |-> <<"B", " ", "MID", " ", "D", ",">>, emp |-> "Part",
       sector |-> <<"Q", ",", " ", "I">>]>>

\* Bodies of POST /jobs/create.  The second has the title (but for a space)
\* and the link of the first record, and names one sector twice.
CreateBodies ==
    <<[companyName |-> "Acme", title |-> "Platform", link |-> "https://c",
       educationLevel |-> "BSc", deadline |-> "03/01",
       locationNames |-> Names(<<<<"S">>, <<"D">>>>), sectorNames |-> Names(<<<<"I">>>>),
       employmentType |-> "Full", salary |-> ""],
      [companyName |-> "Beta", title |-> "Back end", link |-> "https://a",
       educationLevel |-> "MSc", deadline |-> "03/02",
       locationNames |-> Names(<<<<"B">>>>),
       sectorNames |-> Names(<<<<"W">>, <<"W">>>>),
       employmentType |-> "Part", salary |-> "6,000"]>>

NoFields ==
    [companyName |-> "", title |-> "", link |-> "", educationLevel |-> "",
     deadline |-> "", locationNames |-> Absent, sectorNames |-> Absent,
     employmentType |-> "", salary |-> ""]

\* Bodies of PUT /jobs/:id.
PutBodies ==
    <<[NoFields EXCEPT !.title = "Renamed"],
      [NoFields EXCEPT !.companyName = "Gamma", !.locationNames = Names(<<<<"D">>>>),
                       !.employmentType = "Part"],
      [NoFields EXCEPT !.title = "Moved", !.link = "https://b",
                       !.sectorNames = Names(<<>>)],
      NoFields>>

(***************************************************************************)
(* The state machine.                                                      *)
(***************************************************************************)
Idle == [op |-> "idle", user |-> 0, arg |-> 0, existing |-> {}]

NoResponse == [n |-> 0, op |-> "none", user |-> 0, id |-> 0, arg |-> 0, code |-> 0,
               data |-> 0]

Respond(op, user, id, arg, code, data) ==
    [n |-> last.n + 1, op |-> op, user |-> user, id |-> id, arg |-> arg, code |-> code,
     data |-> data]

\* The posting ids /bookmarks and /applications requests name: the two
\* seeded postings, and 0 for a request without jobPostingId.
SeededJobs == {1, 2}

\* The posting ids GET /jobs/:id requests name: the seeded postings and an
\* id no posting has.
ReadIds == {1, 2, 3}

NoHistory == [nreq |-> 0, toggles |-> [p \in Users \X SeededJobs |-> 0],
              reads |-> [j \in ReadIds |-> 0], views0 |-> [j \in ReadIds |-> 0],
              related |-> {}]

\* The tables are created empty (createTables.js) before anything runs.
Init ==
    /\ db = EmptyDB
    /\ req = [s \in Slots |-> Idle]
    /\ last = NoResponse
    /\ hist = NoHistory

\* insertData.js: one scraped record goes through the loop body; code 1 is
\* the catch block's console.error for the record.
InsertRecord(i, max) ==
    /\ hist.nreq < max
    /\ LET r == insertRecord(db, Records[i])
       IN /\ db' = r.db
          /\ last' = Respond("insertData", 0, 0, i, IF r.error = "" THEN 0 ELSE 1, 0)
    /\ hist' = [hist EXCEPT !.nreq = @ + 1]
    /\ UNCHANGED req

\* A record ingested while the /jobs routes are served.
InsertData(i) == InsertRecord(i, MaxJobOps)

\* A record of the offline batch run.
InsertDataBatch(i) == InsertRecord(i, MaxRecords)

\* POST /jobs/create
PostJobsCreate(u, i) ==
    /\ hist.nreq < MaxJobOps
    /\ LET r == createJob(db, u, CreateBodies[i])
       IN /\ db' = r.db
          /\ last' = Respond("create", u, r.id, i, r.code, r.id)
    /\ hist' = [hist EXCEPT !.nreq = @ + 1]
    /\ UNCHANGED req

\* PUT /jobs/:id
PutJobs(u, id, i) ==
    /\ hist.nreq < MaxJobOps
    /\ LET r == putJob(db, u, id, PutBodies[i])
       IN /\ db' = r.db
          /\ last' = Respond("put", u, id, i, r.code, 0)
    /\ hist' = [hist EXCEPT !.nreq = @ + 1]
    /\ UNCHANGED req

\* DELETE /jobs/:id
DeleteJobs(u, id) ==
    /\ hist.nreq < MaxJobOps
    /\ LET r == deleteJob(db, u, id)
       IN /\ db' = r.db
          /\ last' = Respond("delete", u, id, 0, r.code, 0)
    /\ hist' = [hist EXCEPT !.nreq = @ + 1]
    /\ UNCHANGED req

\* The posting ids a request may name: every id handed out so far and the
\* next one, which no posting has.
JobIds == 1..db.autoinc["job_postings"]

Next ==
    \/ \E i \in DOMAIN Records : InsertData(i)
    \/ \E u \in Users, i \in DOMAIN CreateBodies : PostJobsCreate(u, i)
    \/ \E u \in Users, id \in JobIds, i \in DOMAIN PutBodies : PutJobs(u, id, i)
    \/ \E u \in Users, id \in JobIds : DeleteJobs(u, id)

\* The batch script and the /jobs routes over an initially empty database.
Spec == Init /\ [][Next]_vars

IngestNext == \E i \in DOMAIN Records : InsertDataBatch(i)

\* The batch script alone: insertData(dataArray) over any array of records.
IngestSpec == Init /\ [][IngestNext]_vars

(***************************************************************************)
(* bookmarksAPI.js: POST /bookmarks, two round trips.                      *)
(***************************************************************************)
\* The server starts after the batch script has run (README, build order):
\* postings 1 and 2 exist.
SeedDB == insertRecord(insertRecord(EmptyDB, Records[1]).db, Records[3]).db

InitSeeded ==
    /\ db = SeedDB
    /\ req = [s \in Slots |-> Idle]
    /\ last = NoResponse
    /\ hist = NoHistory

\* SELECT * FROM bookmarks WHERE user_id = ? AND job_posting_id = ?
SelectBookmarks(d, u, j) ==
    {r \in d.bookmarks : r.user_id = u /\ r.job_posting_id = j}

\* The posting a bookmark or an application row references exists (foreign
\* key, from the specification's data model).
PostingExists(d, j) == \E r \in d.job_postings : r.job_posting_id = j

\* The branch taken on the SELECT's result: existingBookmark.length > 0.
BookmarkExists(existing) == Cardinality(existing) > 0

\* INSERT INTO bookmarks (user_id, job_posting_id, created_at): [db, failed].
InsertBookmark(d, u, j) ==
    LET row == [user_id |-> u, job_posting_id |-> j,
                copy |-> Cardinality(SelectBookmarks(d, u, j)) + 1]
    IN IF DuplicateKey(d, "bookmarks", row) \/ ~PostingExists(d, j)
       THEN [db |-> d, failed |-> TRUE]
       ELSE [db |-> [d EXCEPT !.bookmarks = @ \cup {row}], failed |-> FALSE]

\* Faulty variant: the DELETE's WHERE clause names the posting only.
DeleteBookmark_OfAnyUser(d, u, j) ==
    [d EXCEPT !.bookmarks = {r \in @ : r.job_posting_id # j}]

\* DELETE FROM bookmarks WHERE user_id = ? AND job_posting_id = ?
DeleteBookmark(d, u, j) ==
    [d EXCEPT !.bookmarks = @ \ SelectBookmarks(d, u, j)]

\* The request arrives and its SELECT runs (400 when jobPostingId is missing).
PostBookmarks_Select(s, u, j) ==
    /\ hist.nreq < MaxToggles
    /\ req[s] = Idle
    /\ hist' = [hist EXCEPT !.nreq = @ + 1]
    /\ IF j = 0
       THEN /\ last' = Respond("toggle", u, j, 0, 400, 0)
            /\ UNCHANGED <<db, req>>
       ELSE /\ req' = [req EXCEPT ![s] = [op |-> "toggle", user |-> u, arg |-> j,
                                          existing |-> SelectBookmarks(db, u, j)]]
            /\ UNCHANGED <<db, last>>

\* The DELETE or the INSERT runs and the response is sent.
PostBookmarks_Write(s) ==
    /\ req[s].op = "toggle"
    /\ req' = [req EXCEPT ![s] = Idle]
    /\ LET u == req[s].user
           j == req[s].arg
           ins == InsertBookmark(db, u, j)
       IN IF BookmarkExists(req[s].existing)
          THEN /\ db' = DeleteBookmark(db, u, j)
               /\ last' = Respond("toggle", u, j, 0, 200, j)
               /\ hist' = [hist EXCEPT !.toggles[<<u, j>>] = @ + 1]
          ELSE IF ins.failed
          THEN /\ last' = Respond("toggle", u, j, 0, 500, 0)
               /\ UNCHANGED <<db, hist>>
          ELSE /\ db' = ins.db
               /\ last' = Respond("toggle", u, j, 0, 201, j)
               /\ hist' = [hist EXCEPT !.toggles[<<u, j>>] = @ + 1]

\* No request of the same user for the same posting is in flight.
NoOverlap(u, j) == \A s \in Slots : ~(req[s].user = u /\ req[s].arg = j)

\* A client that awaits each response before its next toggle of a posting.
PostBookmarks_SelectInTurn(s, u, j) == NoOverlap(u, j) /\ PostBookmarks_Select(s, u, j)

BookmarkNext ==
    \/ \E s \in Slots, u \in Users, j \in SeededJobs \cup {0} : PostBookmarks_Select(s, u, j)
    \/ \E s \in Slots : PostBookmarks_Write(s)

BookmarkSeqNext ==
    \/ \E s \in Slots, u \in Users, j \in SeededJobs \cup {0} :
          PostBookmarks_SelectInTurn(s, u, j)
    \/ \E s \in Slots : PostBookmarks_Write(s)

\* Concurrent /bookmarks requests over the seeded database.
BookmarkSpec == InitSeeded /\ [][BookmarkNext]_vars

\* /bookmarks requests where the toggles of one (user, posting) do not overlap.
BookmarkSeqSpec == InitSeeded /\ [][BookmarkSeqNext]_vars

(***************************************************************************)
(* applicationsAPI.js (the second half of jobsAPI.js in the source tree):  *)
(* POST /applications and DELETE /applications/:id.                        *)
(***************************************************************************)
\* SELECT * FROM applications WHERE user_id = ? AND job_posting_id = ?
SelectApplications(d, u, j) ==
    {r \in d.applications : r.user_id = u /\ r.job_posting_id = j}

\* SELECT * FROM applications WHERE application_id = ? AND user_id = ?
SelectOwnApplication(d, id, u) ==
    {r \in d.applications : r.application_id = id /\ r.user_id = u}

\* rows[0]
FirstApplication(rows) ==
    CHOOSE r \in rows : \A q \in rows : r.application_id <= q.application_id

\* Faulty variant: the re-activation test compares with the wrong status.
MayReactivate_WrongStatus(application) == application.status = Applying

\* existingApplication.status === cancelled: the row may be re-activated.
MayReactivate(application) == application.status = Cancelled

\* Faulty variant: the status test of the cancel route is left out.
NotCancellable_Unchecked(application) == FALSE

\* application[0].status !== applying: the row may not be cancelled.
NotCancellable(application) == application.status # Applying

\* Faulty variant: a cancellation deletes the application row.
UpdateApplicationStatus_DeleteRow(d, id, status) ==
    IF status = Cancelled
    THEN [d EXCEPT !.applications = {r \in @ : r.application_id # id}]
    ELSE [d EXCEPT !.applications =
            {IF r.application_id = id THEN [r EXCEPT !.status = status] ELSE r : r \in @}]

\* UPDATE applications SET status = ? WHERE application_id = ?
UpdateApplicationStatus(d, id, status) ==
    [d EXCEPT !.applications =
        {IF r.application_id = id THEN [r EXCEPT !.status = status] ELSE r : r \in @}]

\* INSERT INTO applications (user_id, job_posting_id, status, created_at):
\* [db, failed, insertId].
InsertApplication(d, u, j) ==
    LET row == [application_id |-> d.autoinc["applications"], user_id |-> u,
                job_posting_id |-> j, status |-> Applying]
    IN IF DuplicateKey(d, "applications", row) \/ ~PostingExists(d, j)
       THEN [db |-> d, failed |-> TRUE, insertId |-> 0]
       ELSE [db |-> [d EXCEPT !.applications = @ \cup {row},
                              !.autoinc["applications"] = @ + 1],
             failed |-> FALSE, insertId |-> row.application_id]

\* POST /applications: the request arrives and its SELECT runs; 400 without
\* jobPostingId, and 400 when a row exists that is not cancelled.
PostApplications_Select(s, u, j) ==
    /\ hist.nreq < MaxApplyOps
    /\ req[s] = Idle
    /\ hist' = [hist EXCEPT !.nreq = @ + 1]
    /\ LET existing == SelectApplications(db, u, j)
       IN IF j = 0 \/ (existing # {} /\ ~MayReactivate(FirstApplication(existing)))
          THEN /\ last' = Respond("apply", u, j, 0, 400, 0)
               /\ UNCHANGED <<db, req>>
          ELSE /\ req' = [req EXCEPT ![s] = [op |-> "apply", user |-> u, arg |-> j,
                                             existing |-> existing]]
               /\ UNCHANGED <<db, last>>

\* POST /applications: the UPDATE (re-activation) or the INSERT runs.
PostApplications_Write(s) ==
    /\ req[s].op = "apply"
    /\ req' = [req EXCEPT ![s] = Idle]
    /\ UNCHANGED hist
    /\ LET u == req[s].user
           j == req[s].arg
           ins == InsertApplication(db, u, j)
       IN IF req[s].existing # {}
          THEN LET id == FirstApplication(req[s].existing).application_id
               IN /\ db' = UpdateApplicationStatus(db, id, Applying)
                  /\ last' = Respond("apply", u, j, 0, 200, id)
          ELSE IF ins.failed
          THEN /\ last' = Respond("apply", u, j, 0, 500, 0)
               /\ UNCHANGED db
          ELSE /\ db' = ins.db
               /\ last' = Respond("apply", u, j, 0, 201, ins.insertId)

\* DELETE /applications/:id: the SELECT runs; 404 when the caller has no
\* such application, 400 when it is not in status applying.
DeleteApplications_Select(s, u, id) ==
    /\ hist.nreq < MaxApplyOps
    /\ req[s] = Idle
    /\ hist' = [hist EXCEPT !.nreq = @ + 1]
    /\ LET application == SelectOwnApplication(db, id, u)
       IN IF application = {}
          THEN /\ last' = Respond("cancel", u, id, 0, 404, 0)
               /\ UNCHANGED <<db, req>>
          ELSE IF NotCancellable(FirstApplication(application))
          THEN /\ last' = Respond("cancel", u, id, 0, 400, 0)
               /\ UNCHANGED <<db, req>>
          ELSE /\ req' = [req EXCEPT ![s] = [op |-> "cancel", user |-> u, arg |-> id,
                                             existing |-> application]]
               /\ UNCHANGED <<db, last>>

\* DELETE /applications/:id: the UPDATE runs.
DeleteApplications_Update(s) ==
    /\ req[s].op = "cancel"
    /\ req' = [req EXCEPT ![s] = Idle]
    /\ db' = UpdateApplicationStatus(db, req[s].arg, Cancelled)
    /\ last' = Respond("cancel", req[s].user, req[s].arg, 0, 200, req[s].arg)
    /\ UNCHANGED hist

\* No request is in flight.
AllIdle == \A s \in Slots : req[s] = Idle

\* A client that awaits each response before its next request.
PostApplications_SelectInTurn(s, u, j) == AllIdle /\ PostApplications_Select(s, u, j)

DeleteApplications_SelectInTurn(s, u, id) == AllIdle /\ DeleteApplications_Select(s, u, id)

\* The application ids a request may name: those handed out and the next.
ApplicationIds == 1..db.autoinc["applications"]

\* The seeded database in which user 2 once applied to posting 2 and the
\* application was since decided (no route sets hired or rejected: the
\* status is set in the database).
InitApplications ==
    /\ \E st \in {Hired, Rejected} :
          db = [SeedDB EXCEPT !.applications =
                                 {[application_id |-> 1, user_id |-> 2,
                                   job_posting_id |-> 2, status |-> st]},
                              !.autoinc["applications"] = 2]
    /\ req = [s \in Slots |-> Idle]
    /\ last = NoResponse
    /\ hist = NoHistory

ApplicationNext ==
    \/ \E s \in Slots, u \in Users, j \in SeededJobs \cup {0} :
          PostApplications_Select(s, u, j)
    \/ \E s \in Slots : PostApplications_Write(s)
    \/ \E s \in Slots, u \in Users, id \in ApplicationIds :
          DeleteApplications_Select(s, u, id)
    \/ \E s \in Slots : DeleteApplications_Update(s)

ApplicationSeqNext ==
    \/ \E s \in Slots, u \in Users, j \in SeededJobs \cup {0} :
          PostApplications_SelectInTurn(s, u, j)
    \/ \E s \in Slots : PostApplications_Write(s)
    \/ \E s \in Slots, u \in Users, id \in ApplicationIds :
          DeleteApplications_SelectInTurn(s, u, id)
    \/ \E s \in Slots : DeleteApplications_Update(s)

\* Concurrent /applications requests.
ApplicationSpec == InitApplications /\ [][ApplicationNext]_vars

\* /applications requests issued one at a time.
ApplicationSeqSpec == InitApplications /\ [][ApplicationSeqNext]_vars

(***************************************************************************)
(* jobsAPI.js: GET /jobs/:id, the detail read.  The handler awaits the     *)
(* detail SELECT, then the UPDATE of the view counter (and the SELECT of   *)
(* the related postings, which writes nothing), and answers.               *)
(***************************************************************************)
\* The rows of the detail SELECT: job_postings JOIN companies ... WHERE
\* j.job_posting_id = ? GROUP BY j.job_posting_id.
SelectDetail(d, id) ==
    {r \in RowsWhere(d.job_postings, "job_posting_id", id) :
        \E c \in d.companies : c.id = r.company_id}

\* Faulty variant: the UPDATE has no WHERE clause.
IncrementViews_OfEveryPosting(d, id) ==
    [d EXCEPT !.job_postings = {[r EXCEPT !.views = @ + 1] : r \in @}]

\* UPDATE job_postings SET views = views + 1 WHERE job_posting_id = ?
IncrementViews(d, id) ==
    [d EXCEPT !.job_postings =
        {IF r.job_posting_id = id THEN [r EXCEPT !.views = @ + 1] ELSE r : r \in @}]

\* GET /jobs/:id up to the awaited detail SELECT; 404 when it has no row.
GetJobs_Select(s, id) ==
    /\ hist.nreq < MaxReads
    /\ req[s] = Idle
    /\ hist' = [hist EXCEPT !.nreq = @ + 1]
    /\ IF SelectDetail(db, id) = {}
       THEN /\ last' = Respond("get", 0, id, 0, 404, 0)
            /\ UNCHANGED <<db, req>>
       ELSE /\ req' = [req EXCEPT ![s] = [op |-> "get", user |-> 0, arg |-> id,
                                          existing |-> {}]]
            /\ UNCHANGED <<db, last>>

\* j.company_id = ? with job[0].company_name as its parameter: the text is
\* compared as a number, the value of the digits it begins with.
CompanyIdOfName(d, job) ==
    CastUnsigned(Chars((CHOOSE c \in d.companies : c.id = job.company_id).name))

\* The related-postings query before ORDER BY RAND() LIMIT 5: the ids of the
\* other postings with that company_id, or with a sector of the posting.
RelatedJobs(d, id) ==
    {j.job_posting_id : j \in {x \in d.job_postings :
        /\ \E c \in d.companies : c.id = x.company_id
        /\ \/ \E job \in SelectDetail(d, id) : x.company_id = CompanyIdOfName(d, job)
           \/ \E js2 \in RowsWhere(d.job_posting_sectors, "job_posting_id", x.job_posting_id) :
                 \E js \in RowsWhere(d.job_posting_sectors, "job_posting_id", id) :
                    js2.ref_id = js.ref_id
        /\ x.job_posting_id # id}}

\* ORDER BY RAND() LIMIT 5: any five of the rows, all of them when there
\* are no more than five.
RelatedLimit == 5

AnyFive(ids) ==
    {chosen \in SUBSET ids :
        Cardinality(chosen) = IF Cardinality(ids) < RelatedLimit THEN Cardinality(ids)
                              ELSE RelatedLimit}

\* GET /jobs/:id from the UPDATE of the counter to the 200 response, the
\* related postings in hist.related.  (No request of the model changes a
\* posting's company between the detail SELECT and this step, so the company
\* name read by the SELECT is the stored one.)
GetJobs_Update(s) ==
    /\ req[s].op = "get"
    /\ db' = IncrementViews(db, req[s].arg)
    /\ last' = Respond("get", 0, req[s].arg, 0, 200, 0)
    /\ \E chosen \in AnyFive(RelatedJobs(db', req[s].arg)) :
          hist' = [hist EXCEPT !.reads[req[s].arg] = @ + 1, !.related = chosen]
    /\ req' = [req EXCEPT ![s] = Idle]

\* The view counts the postings have when the server starts.
InitialViews == {[j \in ReadIds |-> 0], [j \in ReadIds |-> IF j = 1 THEN 4 ELSE 0]}

InitViews ==
    /\ \E v \in InitialViews :
          /\ db = [SeedDB EXCEPT !.job_postings =
                      {[r EXCEPT !.views = v[r.job_posting_id]] : r \in @}]
          /\ hist = [NoHistory EXCEPT !.views0 = v]
    /\ req = [s \in Slots |-> Idle]
    /\ last = NoResponse

ViewNext ==
    \/ \E s \in Slots, id \in ReadIds : GetJobs_Select(s, id)
    \/ \E s \in Slots : GetJobs_Update(s)

\* Concurrent detail reads over the seeded database.
ViewSpec == InitViews /\ [][ViewNext]_vars

(***************************************************************************)
(* jobsAPI.js: POST /jobs, the filtered and paginated list.  A body is     *)
(* [page, location, experience, sector, keyword, company]; an id filter    *)
(* that was not sent is 0 and a text filter that was not sent is the empty *)
(* text (both falsy).  Texts are compared character by character, so the   *)
(* titles and company names of the model are spelled out.                  *)
(***************************************************************************)
\* const PAGE_SIZE = 20
PAGE_SIZE == 20

\* text LIKE pattern: % matches any run of characters, _ any one character.
RECURSIVE Like(_, _)
Like(text, pattern) ==
    IF pattern = <<>> THEN text = <<>>
    ELSE IF Head(pattern) = "%"
         THEN Like(text, Tail(pattern)) \/ (text # <<>> /\ Like(Tail(text), pattern))
         ELSE /\ text # <<>>
              /\ Head(pattern) = "_" \/ Head(pattern) = Head(text)
              /\ Like(Tail(text), Tail(pattern))

\* `%${keyword}%`
Contains(keyword) == <<"%">> \o keyword \o <<"%">>

\* The values of a LEFT JOINed junction column for one posting: the ids of
\* its junction rows, or NULL when it has none.
LeftJoin(d, junction, id) ==
    LET ids == {r.ref_id : r \in RowsWhere(d[junction], "job_posting_id", id)}
    IN IF ids = {} THEN {NullId} ELSE ids

\* The WHERE clause: filters.join(' AND ') over the filters that were sent.
ListWhere(row, body) ==
    /\ body.location # 0 => row.location_id = body.location
    /\ body.experience # 0 => row.experience_id = body.experience
    /\ body.sector # 0 => row.sector_id = body.sector
    /\ body.keyword # <<>> => \/ Like(Chars(row.title), Contains(body.keyword))
                              \/ Like(Chars(row.company_name), Contains(body.keyword))
    /\ body.company # <<>> => Like(Chars(row.company_name), Contains(body.company))

\* baseQuery: job_postings JOIN companies LEFT JOIN sectors LEFT JOIN
\* locations (JOIN experiences when that filter is sent), WHERE the filters.
\* The employment-type joins select and filter nothing and are left out.
ListBaseQuery(d, body) ==
    {row \in UNION {
        {[job_posting_id |-> j.job_posting_id, title |-> j.title,
          company_name |-> c.name, sector_id |-> sec, location_id |-> loc,
          experience_id |-> ex] :
            c \in RowsWhere(d.companies, "id", j.company_id),
            sec \in LeftJoin(d, "job_posting_sectors", j.job_posting_id),
            loc \in LeftJoin(d, "job_posting_locations", j.job_posting_id),
            ex \in IF body.experience # 0
                   THEN {r.ref_id : r \in RowsWhere(d.job_posting_experiences,
                                                    "job_posting_id", j.job_posting_id)}
                   ELSE {NullId}} : j \in d.job_postings} :
       ListWhere(row, body)}

\* job_postings.created_at, which the rows of the model do not carry: the
\* second of the INSERT; two postings inserted one after the other share it.
CreatedAt(id) == (id + 1) \div 2

\* ORDER BY j.created_at DESC, j.job_posting_id ASC
ListBefore(a, b) ==
    \/ CreatedAt(a) > CreatedAt(b)
    \/ CreatedAt(a) = CreatedAt(b) /\ a < b

\* The grouped rows (one per posting id) in the order of the ORDER BY.
ListOrdered(ids) ==
    [i \in 1..Cardinality(ids) |->
        CHOOSE a \in ids : Cardinality({b \in ids : ListBefore(b, a)}) = i - 1]

\* Faulty variant: the quotient is rounded down.
Ceil_RoundedDown(n, size) == n \div size

\* Math.ceil(totalCount / PAGE_SIZE)
Ceil(n, size) == (n + size - 1) \div size

\* LIMIT ? OFFSET ? over a sequence of rows.
LimitOffset(rows, limit, offset) ==
    SubSeq(rows, offset + 1, IF offset + limit < Len(rows) THEN offset + limit ELSE Len(rows))

NoPagination == [currentPage |-> 0, totalPages |-> 0, pageSize |-> 0, totalItems |-> 0]

\* router.post('/'): [code, rows, pagination]; rows are posting ids.
listJobs(d, body) ==
    LET ids == {row.job_posting_id : row \in ListBaseQuery(d, body)}
        totalCount == Cardinality(ids)
        offset == (body.page - 1) * PAGE_SIZE
        pagination == [currentPage |-> body.page,
                       totalPages |-> Ceil(totalCount, PAGE_SIZE),
                       pageSize |-> PAGE_SIZE, totalItems |-> totalCount]
    IN IF body.page < 1 THEN [code |-> 400, rows |-> <<>>, pagination |-> NoPagination]
       ELSE IF totalCount = 0
            THEN [code |-> 404, rows |-> <<>>, pagination |-> NoPagination]
       ELSE IF body.page > pagination.totalPages
            THEN [code |-> 400, rows |-> <<>>, pagination |-> NoPagination]
       ELSE [code |-> 200, rows |-> LimitOffset(ListOrdered(ids), PAGE_SIZE, offset),
             pagination |-> pagination]

(***************************************************************************)
(* The databases the list is queried over: the seeded database with a      *)
(* third scraped record, and a number of further postings behind it, so    *)
(* that result sets of 20, 21 and 41 postings occur.                       *)
(***************************************************************************)
\* crypto's SHA-256 hex digests of the links "https://bulk/1" .. "https://bulk/38".
BulkHashes ==
    <<"24480ab75a32e0d6750cf4c9c9525a0295e9f62ca132ba1ab817e63a55a8ce10",
      "c0938e500b2c174678c60ebb34bb0a0dc223d45e50c6c1c768ba51075469a6ff",
      "5dce7d44cb9d1c2f0e789018cc044c4b083f177d8a4bcc0f022ac13551189052",
      "b4330def4429c68d99dd3d33618fd40084df3ebffd13e3d767127a9fb0dd9bfa",
      "71da46bd1061fc7b33683500e8a0d64ec8d6e626db5d2e39e79bae18094b0875",
      "70d34e5bca229ada367056492992060ea5a7978c05945c921f15d780ab77d423",
      "5b8569ed012a3289a3a86626bbb508322f0b0e5e4859e19ad2703ff0538e06e1",
      "c58d77dca54512792a93f2b1a97bdf9b20d4b4c01d7e58dc7422230b4cd63da8",
      "f21024132fa5e1362f667215ff028477d4bf0df6b5144ccb7465c2f17ada3a0a",
      "62b30e2ac132cdbaca1a2b09f86010b6b2f06cdec8d8050febc59c7e0e1934cc",
      "0ec3fa63281da274c06cd9b2ad1af314fc194a8fcf24275b6c411cace98b8e19",
      "8c911d2f02e26e933e9d2a1a76072d897f9d5b4e6f7ec7b8dfd216401a603fd7",
      "2dd5968eda9d73c5b8ea8620c34629d320ffa6d368af56b7dd24e9f1720c5a99",
      "60550e5e3e02095f0dec10f99017e751d953ec8e00c9a6e110d0b7b8fe8ac497",
      "cb1fcb988a843eb072882a4065c6ef1879f4d5c5140f5b1d900e5480e85906b7",
      "49af291dff20a34012dfe725d8636718a07b9ea4c529bf12f08db5e3f01c9926",
      "b502f0c4c6eb922415350d590ea1e72e1cd6b01f6536f8332e85628ea0c8cc6b",
      "dd8099c0a5fbdeff434079d9b42a5cebfdc2f09df3dd7c1efff8e2cc269282ff",
      "896afcb72a96f4c32584dcfc3068a9252a3d6bfade71a56026ef790bc537712b",
      "b96cdcdbeb85801da762e9ed284ea3865849657cf4ad943ea3d75d4a3a40d2f4",
      "3d9d518491a7dcd10e0ac067b1f9d43fce7945e5d4fb58fdaaa0e1a2b4dba68d",
      "f3a7c22185cd5f8f058d6301bf7e9afd2d2225e8264f81a84f1e870516cfa7f4",
      "5f79cd4ad57ef56f94ba6b4d256020ea28ee9caf9b06015fe6c1a162913bcb44",
      "1d9cd8a57f9edb4b112ee8f52b8e2169c9e5b7a38fce96d48b2b9d51717d121b",
      "645dfeff0e18db834e459c0fddea2a0c768307d05fe78a39842318e76843ca24",
      "384d56ec372cc6d65c0d542f9b924b3d9a449a8fa8f60b8d1498f92b01c3ad83",
      "fabde3581ff387feb22acef95511cba71d4c7c61b7b7147c41a1ff99006139fd",
      "81068f954bbb78e8239cba1b877a5ae65590be427b928d43cd29df910d32b48e",
      "fb2b773f0e290cf73186e6d23efe9de084bed0237b46c64888648f640a655bd2",
      "f0950081f3210b2aa74231c42ec72721b9010af48a7ad8d67b2e565311e683c4",
      "21a6854cbcac3e96d6f0c662639f22d69f4fba9d45251f3521d55dda623e4f4e",
      "ecf0e3dafa720e56fd406941e6f43782efa8715d0482e1129a8b3e22d40db47a",
      "190d0b36f7ca6ef70e1806c07518a3462545cf529143c59e5a8b0872944f486d",
      "86c262ea4cb4e1e98c49cb3634f7c07cc907fdb67c3a4f83db74f59fc08c3308",
      "f5007c05ec51d10292dd47c2bfe7e68cab9c31236ffbe7fd47a847a17682d29e",
      "319bfe870615993b9dc62170f48929b0eeb6e4d1b282428f5524ec4a78c8fb44",
      "8fb01794cbc3c916ea19b267c5ff92a4168b99881e53e3e4520fc93b806ac6bf",
      "65aea77a9842874f3e37221f87e525466544c8690435ce2e3a7308b6a82f591b">>

\* Further scraped postings of one company, location and experience level
\* ("Data" of "Acme"), by turns of sector "I" and of sector "W", as insertData
\* stores them.
BulkSizes == {0, 17, 18, 38}

RECURSIVE BulkDB(_, _)
BulkDB(d, n) ==
    IF n = 0 THEN d
    ELSE LET d1 == BulkDB(d, n - 1)
             id == d1.autoinc["job_postings"]
             row == [job_posting_id |-> id, user_id |-> NullId, company_id |-> 1,
                     title |-> "Data", link |-> "https://bulk/" \o ToString(n),
                     link_hash |-> BulkHashes[n], education_id |-> NullId,
                     employment_type_id |-> NullId, deadline |-> "02/01",
                     last_modified_date |-> Null, salary |-> "4,000", views |-> 0]
             link == [job_posting_id |-> id, ref_id |-> 1]
             sector == [job_posting_id |-> id, ref_id |-> IF n % 2 = 0 THEN 2 ELSE 1]
         IN [d1 EXCEPT !.job_postings = @ \cup {row},
                       !.autoinc["job_postings"] = @ + 1,
                       !.job_posting_locations = @ \cup {link},
                       !.job_posting_sectors = @ \cup {sector},
                       !.job_posting_experiences = @ \cup {link}]

ListSeedDB == insertRecord(SeedDB, Records[4]).db

ListDBs == {EmptyDB} \cup {BulkDB(ListSeedDB, n) : n \in BulkSizes}

\* Bodies of POST /jobs: pages around the valid range; the ids of the
\* locations "S" and "D", of the experience level "N" and of the sectors "I"
\* and "Q"; keywords "ack", "_" and "z"; the company text "Be".
ListPages == -1..4

ListBodies ==
    [page : ListPages, location : {0, 1, 3}, experience : {0, 1}, sector : {0, 1, 3},
     keyword : {<<>>, <<"a", "c", "k">>, <<"_">>, <<"z">>},
     company : {<<>>, <<"B", "e">>}]

InitList ==
    /\ db \in ListDBs
    /\ req = [s \in Slots |-> Idle]
    /\ last = NoResponse
    /\ hist = NoHistory

\* formattedRows: per returned posting, GROUP_CONCAT(DISTINCT l.location_name)
\* and GROUP_CONCAT(DISTINCT s.sector_name) over the posting's rows of the
\* base query, split into arrays (here the sets of the names; a NULL of the
\* LEFT JOIN adds nothing).
formattedRows(d, body, rows) ==
    [i \in DOMAIN rows |->
        LET group == {row \in ListBaseQuery(d, body) : row.job_posting_id = rows[i]}
        IN [job_posting_id |-> rows[i],
            locations |-> {l.name : l \in {x \in d.locations :
                              \E row \in group : row.location_id = x.id}},
            sectors |-> {sec.name : sec \in {x \in d.sectors :
                            \E row \in group : row.sector_id = x.id}}]]

\* POST /jobs
PostJobs(body) ==
    /\ hist.nreq < MaxListOps
    /\ LET r == listJobs(db, body)
       IN last' = Respond("list", 0, 0, 0, r.code,
                          [body |-> body, rows |-> r.rows, pagination |-> r.pagination,
                           formattedRows |-> formattedRows(db, body, r.rows)])
    /\ hist' = [hist EXCEPT !.nreq = @ + 1]
    /\ UNCHANGED <<db, req>>

ListNext == \E body \in ListBodies : PostJobs(body)

\* The list route over stored postings.
ListSpec == InitList /\ [][ListNext]_vars

(***************************************************************************)
(* recommendationsAPI.js: GET /recommendations, the preference-based       *)
(* recommendations of the calling user.                                    *)
(***************************************************************************)
\* parseInt(req.query.page) || 1, for an integer page parameter.
PageOrFirst(page) == IF page = 0 THEN 1 ELSE page

\* SELECT job_posting_id FROM bookmarks WHERE user_id = ?
BookmarkedBy(d, userId) ==
    {r.job_posting_id : r \in RowsWhere(d.bookmarks, "user_id", userId)}

\* Faulty variant: only the applications in status applying are selected.
AppliedBy_ActiveOnly(d, userId) ==
    {r.job_posting_id : r \in {a \in RowsWhere(d.applications, "user_id", userId) :
                                  a.status = Applying}}

\* SELECT job_posting_id FROM applications WHERE user_id = ?
AppliedBy(d, userId) ==
    {r.job_posting_id : r \in RowsWhere(d.applications, "user_id", userId)}

\* SELECT DISTINCT js.sector_id FROM job_postings jp JOIN job_posting_sectors js
\* WHERE jp.job_posting_id IN (bookmarks UNION applications of the user)
UserSectors(d, userId) ==
    {js.ref_id : js \in {x \in d.job_posting_sectors :
        /\ RowsWhere(d.job_postings, "job_posting_id", x.job_posting_id) # {}
        /\ x.job_posting_id \in BookmarkedBy(d, userId) \cup AppliedBy(d, userId)}}

\* js.sector_id IN (?) with the array sectorIds as its parameter: the list
\* of the array's elements (executeQuery, of Model/executeDB.js, is not among
\* the source files; from the specification: "sector set intersects the
\* preferred set").
InList(sectorIds) == sectorIds

\* The count query: job_postings JOIN job_posting_sectors WHERE js.sector_id
\* IN (sectorIds) AND jp.job_posting_id NOT IN (applications of the user).
RecommendCount(d, userId, sectorIds) ==
    Cardinality({jp.job_posting_id : jp \in {x \in d.job_postings :
        /\ \E js \in RowsWhere(d.job_posting_sectors, "job_posting_id", x.job_posting_id) :
              js.ref_id \in InList(sectorIds)
        /\ x.job_posting_id \notin AppliedBy(d, userId)}})

\* The data query before its LIMIT: the count query's joins and WHERE with
\* JOIN companies and JOIN sectors, GROUP BY jp.job_posting_id.
RecommendGroups(d, userId, sectorIds) ==
    {jp.job_posting_id : jp \in {x \in d.job_postings :
        /\ \E c \in d.companies : c.id = x.company_id
        /\ \E js \in RowsWhere(d.job_posting_sectors, "job_posting_id", x.job_posting_id) :
              /\ \E sec \in d.sectors : sec.id = js.ref_id
              /\ js.ref_id \in InList(sectorIds)
        /\ x.job_posting_id \notin AppliedBy(d, userId)}}

\* The query has no ORDER BY: the groups come in the order of the GROUP BY
\* key, the posting id.
RecommendOrdered(ids) ==
    [i \in 1..Cardinality(ids) |->
        CHOOSE a \in ids : Cardinality({b \in ids : b < a}) = i - 1]

\* router.get('/'): [code, rows, pagination]; rows are posting ids.
recommend(d, userId, pageParam) ==
    LET page == PageOrFirst(pageParam)
        offset == (page - 1) * PAGE_SIZE
        sectorIds == UserSectors(d, userId)
        totalItems == RecommendCount(d, userId, sectorIds)
        pagination == [currentPage |-> page, totalPages |-> Ceil(totalItems, PAGE_SIZE),
                       pageSize |-> PAGE_SIZE, totalItems |-> totalItems]
    IN IF page < 1 THEN [code |-> 400, rows |-> <<>>, pagination |-> NoPagination]
       ELSE IF sectorIds = {}
            THEN [code |-> 422, rows |-> <<>>, pagination |-> NoPagination]
       ELSE IF totalItems = 0
            THEN [code |-> 404, rows |-> <<>>, pagination |-> NoPagination]
       ELSE IF page > pagination.totalPages
            THEN [code |-> 400, rows |-> <<>>, pagination |-> NoPagination]
       ELSE [code |-> 200,
             rows |-> LimitOffset(RecommendOrdered(RecommendGroups(d, userId, sectorIds)),
                                  PAGE_SIZE, offset),
             pagination |-> pagination]

\* The databases recommendations are asked over: the list's seeded database,
\* alone or with 38 further postings; user 1 has any of the postings 1, 3 and
\* 5 bookmarked and an application, applying or cancelled, for any of the
\* postings 1, 2 and 5; user 2 has posting 2 bookmarked and applied for
\* posting 3.
RecommendSizes == {0, 38}

RecommendDBs ==
    {[d EXCEPT
        !.bookmarks =
            {[user_id |-> 1, job_posting_id |-> j, copy |-> 1] : j \in bm}
            \cup {[user_id |-> 2, job_posting_id |-> 2, copy |-> 1]},
        !.applications =
            {[application_id |-> j, user_id |-> 1, job_posting_id |-> j,
              status |-> ap[j]] : j \in {k \in DOMAIN ap : ap[k] # "none"}}
            \cup {[application_id |-> 6, user_id |-> 2, job_posting_id |-> 3,
                   status |-> Applying]},
        !.autoinc["applications"] = 7] :
      d \in {BulkDB(ListSeedDB, n) : n \in RecommendSizes},
      bm \in SUBSET {1, 3, 5},
      ap \in [{1, 2, 5} -> {"none", Applying, Cancelled}]}

InitRecommend ==
    /\ db \in {d \in RecommendDBs :
                 \A r \in d.bookmarks \cup d.applications :
                    RowsWhere(d.job_postings, "job_posting_id", r.job_posting_id) # {}}
    /\ req = [s \in Slots |-> Idle]
    /\ last = NoResponse
    /\ hist = NoHistory

\* GET /recommendations?page=, one of at most max requests of a run.
RecommendRequest(u, page, max) ==
    /\ hist.nreq < max
    /\ LET r == recommend(db, u, page)
       IN last' = Respond("recommend", u, 0, page, r.code,
                          [rows |-> r.rows, pagination |-> r.pagination])
    /\ hist' = [hist EXCEPT !.nreq = @ + 1]
    /\ UNCHANGED <<db, req>>

GetRecommendations(u, page) == RecommendRequest(u, page, MaxRecommendOps)

RecommendNext == \E u \in Users, page \in ListPages : GetRecommendations(u, page)

\* The preference-based recommendations over stored postings, bookmarks and
\* applications.
RecommendSpec == InitRecommend /\ [][RecommendNext]_vars

(***************************************************************************)
(* GET /recommendations/pay: the postings with an annual salary of at      *)
(* least 1000, the highest first.  A salary text is a sequence of          *)
(* characters; the syllables of the unit suffix are the tokens "MAN" and   *)
(* "WON", the monthly label is "WOL", the placeholder text is "CHU","HU",  *)
(* " ","HYEOP","UI".                                                       *)
(***************************************************************************)
UnitSuffix == <<"MAN", "WON">>

\* j.salary LIKE '%<suffix>': the text ends with the suffix.
EndsWith(text, suffix) ==
    /\ Len(text) >= Len(suffix)
    /\ SubSeq(text, Len(text) - Len(suffix) + 1, Len(text)) = suffix

\* REPLACE(text, from, ''): every occurrence of from removed, left to right.
RECURSIVE Remove(_, _)
Remove(text, from) ==
    IF text = <<>> THEN <<>>
    ELSE IF Len(text) >= Len(from) /\ SubSeq(text, 1, Len(from)) = from
         THEN Remove(SubSeq(text, Len(from) + 1, Len(text)), from)
    ELSE <<Head(text)>> \o Remove(Tail(text), from)

\* REPLACE(REPLACE(j.salary, ',', ''), '<suffix>', '')
SalaryNumberText(salary) == Remove(Remove(salary, <<",">>), UnitSuffix)

\* The WHERE clause of both queries of the route.
PayWhere(salary) ==
    /\ EndsWith(salary, UnitSuffix)
    /\ Len(SalaryNumberText(salary)) > 0
    /\ CastUnsigned(SalaryNumberText(salary)) >= 1000

\* ORDER BY CAST(...) DESC; rows of one value are taken in the order of
\* their posting ids.
PayBefore(a, b) ==
    LET va == CastUnsigned(SalaryNumberText(a.salary))
        vb == CastUnsigned(SalaryNumberText(b.salary))
    IN va > vb \/ (va = vb /\ a.job_posting_id < b.job_posting_id)

PayOrdered(rows) ==
    [i \in 1..Cardinality(rows) |->
        CHOOSE a \in rows : Cardinality({b \in rows : PayBefore(b, a)}) = i - 1]

\* router.get('/pay'): [code, rows, pagination]; rows are [job_posting_id,
\* salary].
pay(d, pageParam) ==
    LET page == PageOrFirst(pageParam)
        offset == (page - 1) * PAGE_SIZE
        payJobs == {[job_posting_id |-> j.job_posting_id, salary |-> j.salary] :
                      j \in {x \in d.job_postings :
                               /\ \E c \in d.companies : c.id = x.company_id
                               /\ PayWhere(x.salary)}}
        totalItems == Cardinality({x \in d.job_postings : PayWhere(x.salary)})
        pagination == [currentPage |-> page, totalPages |-> Ceil(totalItems, PAGE_SIZE),
                       pageSize |-> PAGE_SIZE, totalItems |-> totalItems]
    IN IF page < 1 THEN [code |-> 400, rows |-> <<>>, pagination |-> NoPagination]
       ELSE IF page > pagination.totalPages
            THEN [code |-> 400, rows |-> <<>>, pagination |-> NoPagination]
       ELSE [code |-> 200, rows |-> LimitOffset(PayOrdered(payJobs), PAGE_SIZE, offset),
             pagination |-> pagination]

\* Salary texts: up to MaxSalaryParts of these parts, one after the other.
SalaryParts ==
    {<<"5", ",", "0", "0", "0">>, <<"1", ",", "0", "0", "0">>, <<"9", "9", "9">>,
     <<"~", "6", ",", "0", "0", "0">>, <<" ">>, UnitSuffix, <<"WON">>,
     <<"WOL", " ">>, <<"/", "WOL">>, <<"CHU", "HU", " ", "HYEOP", "UI">>}

RECURSIVE SalaryTextsOf(_)
SalaryTextsOf(n) ==
    IF n = 0 THEN {<<>>}
    ELSE LET shorter == SalaryTextsOf(n - 1)
         IN shorter \cup {t \o p : t \in shorter, p \in SalaryParts}

SalaryTexts == SalaryTextsOf(MaxSalaryParts)

\* The databases the route reads: the three postings of the list's seeded
\* database, the first with any salary text, the second with an annual
\* figure or the placeholder, the third with a figure below 1000.
PayDBs ==
    {[ListSeedDB EXCEPT !.job_postings =
        {[j EXCEPT !.salary = CASE j.job_posting_id = 1 -> first
                                [] j.job_posting_id = 2 -> second
                                [] OTHER -> <<"9", "9", "9">> \o UnitSuffix] :
           j \in ListSeedDB.job_postings}] :
      first \in SalaryTexts,
      second \in {<<"5", ",", "0", "0", "0", " ">> \o UnitSuffix,
                  <<"1", ",", "0", "0", "0">> \o UnitSuffix,
                  <<"CHU", "HU", " ", "HYEOP", "UI">>}}

InitPay ==
    /\ db \in PayDBs
    /\ req = [s \in Slots |-> Idle]
    /\ last = NoResponse
    /\ hist = NoHistory

\* GET /recommendations/pay?page=
GetPay(page) ==
    /\ hist.nreq < MaxPayOps
    /\ LET r == pay(db, page)
       IN last' = Respond("pay", 0, 0, page, r.code,
                          [rows |-> r.rows, pagination |-> r.pagination])
    /\ hist' = [hist EXCEPT !.nreq = @ + 1]
    /\ UNCHANGED <<db, req>>

PayNext == \E page \in {-1, 0, 1, 2} : GetPay(page)

\* The salary-based recommendations over stored postings.
PaySpec == InitPay /\ [][PayNext]_vars

(***************************************************************************)
(* server.js and Middlewares/authenticate.js: every request passes the     *)
(* global middleware before its route.  A path is the sequence of its      *)
(* segments; an Authorization header is a sequence of words and spaces,    *)
(* the empty sequence when the header is absent or empty.                  *)
(***************************************************************************)
\* const nonAuthPaths = ['/auth/register', '/auth/login', '/api-docs']
nonAuthPaths == {<<"/auth", "/register">>, <<"/auth", "/login">>, <<"/api-docs">>}

\* String.prototype.startsWith
StartsWith(text, prefix) ==
    Len(text) >= Len(prefix) /\ SubSeq(text, 1, Len(prefix)) = prefix

\* jwt.verify(token, SECRET_KEY): the payload of a token this server signed
\* that has not expired, [userId |-> 0] standing for the exception thrown
\* for any other token.
JwtVerify(token) ==
    CASE token = <<"T1">> -> [userId |-> 1]
      [] token = <<"T2">> -> [userId |-> 2]
      [] OTHER -> [userId |-> 0]

\* Faulty variant: any header that names a token is let through with the
\* identity the token claims, verified or not.
authenticate_Unverified(authHeader) ==
    IF authHeader = <<>> \/ ~StartsWith(authHeader, <<"Bearer", " ">>)
    THEN [code |-> 401, user |-> 0]
    ELSE LET token == Split(authHeader, {" "})[2]
         IN [code |-> 0, user |-> IF token = <<"EXPIRED", "T1">> THEN 1
                                  ELSE JwtVerify(token).userId]

\* authenticate: [code, user]; code 0 is next() with req.user attached.
authenticate(authHeader) ==
    IF authHeader = <<>> \/ ~StartsWith(authHeader, <<"Bearer", " ">>)
    THEN [code |-> 401, user |-> 0]
    ELSE LET token == Split(authHeader, {" "})[2]
             payload == JwtVerify(token)
         IN IF payload.userId = 0 THEN [code |-> 403, user |-> 0]
            ELSE [code |-> 0, user |-> payload.userId]

\* The global middleware: next() at once for the three open paths,
\* authenticate for every other.
Gate(path, authHeader) ==
    IF \E p \in nonAuthPaths : StartsWith(path, p)
    THEN [code |-> 0, user |-> 0]
    ELSE authenticate(authHeader)

\* The routes mounted at /auth and /api-docs (Control/authAPI.js and the
\* Swagger UI are not among the source files): the request is theirs.
OpenRoute(path) ==
    /\ hist.nreq < MaxGateOps
    /\ last' = Respond("open", 0, 0, 0, 200, 0)
    /\ hist' = [hist EXCEPT !.nreq = @ + 1]
    /\ UNCHANGED <<db, req>>

\* app.get('/'): res.redirect('/auth/login')
RootRoute ==
    /\ hist.nreq < MaxGateOps
    /\ last' = Respond("root", 0, 0, 0, 302, 0)
    /\ hist' = [hist EXCEPT !.nreq = @ + 1]
    /\ UNCHANGED <<db, req>>

\* The requests of the model: POST for /bookmarks with jobPostingId j, GET
\* for the other paths.
GatePaths ==
    {<<"/auth", "/register">>, <<"/auth", "/login">>, <<"/auth", "/login", "/x">>,
     <<"/api-docs">>, <<"/auth", "/profile">>, <<"/">>, <<"/bookmarks">>,
     <<"/jobs", "/:id">>}

GateHeaders ==
    {<<>>, <<"Basic", " ", "T1">>, <<"bearer", " ", "T1">>, <<"Bearer">>,
     <<"Bearer", " ">>, <<"Bearer", " ", "T1">>, <<"Bearer", " ", "T2">>,
     <<"Bearer", " ", "EXPIRED", "T1">>, <<"Bearer", " ", " ", "T1">>,
     <<"Bearer", " ", "T2", " ", "x">>}

\* A request arrives: the middleware, then (on next()) the route of the path
\* up to its first await.
Arrive(s, path, authHeader, j) ==
    LET gate == Gate(path, authHeader)
    IN IF gate.code # 0
       THEN /\ hist.nreq < MaxGateOps
            /\ last' = Respond("gate", 0, 0, 0, gate.code, 0)
            /\ hist' = [hist EXCEPT !.nreq = @ + 1]
            /\ UNCHANGED <<db, req>>
       ELSE CASE path = <<"/bookmarks">> -> PostBookmarks_Select(s, gate.user, j)
              [] path = <<"/jobs", "/:id">> -> GetJobs_Select(s, j)
              [] path = <<"/">> -> RootRoute
              [] OTHER -> OpenRoute(path)

GateNext ==
    \/ \E s \in Slots, path \in GatePaths, authHeader \in GateHeaders, j \in SeededJobs :
          Arrive(s, path, authHeader, j)
    \/ \E s \in Slots : PostBookmarks_Write(s)
    \/ \E s \in Slots : GetJobs_Update(s)

\* Requests with and without credentials over the seeded database.
GateSpec == InitSeeded /\ [][GateNext]_vars

(***************************************************************************)
(* insertData.js: the two parsers of the multi-value fields, applied to    *)
(* field texts of their own.                                               *)
(***************************************************************************)
\* Field texts: up to MaxTextParts of these parts, one after the other; the
\* dates are a calendar date, the 30th of February and a date whose month
\* has one digit.
TextParts ==
    {<<"I">>, <<"W">>, <<",">>, <<" ">>, <<"MID">>, <<"OE">>,
     <<"SU", "JEONG", "IL">>, <<"DEUNG", "ROK", "IL", " ">>,
     <<"2", "4", "/", "0", "3", "/", "1", "5">>,
     <<"2", "4", "/", "0", "2", "/", "3", "0">>,
     <<"2", "4", "/", "3", "/", "1", "5">>}

RECURSIVE FieldTextsOf(_)
FieldTextsOf(n) ==
    IF n = 0 THEN {<<>>}
    ELSE LET shorter == FieldTextsOf(n - 1)
         IN shorter \cup {t \o p : t \in shorter, p \in TextParts}

\* The generated texts and the sector and location fields of the scraped
\* records.
FieldTexts ==
    FieldTextsOf(MaxTextParts)
    \cup {Records[i].sector : i \in DOMAIN Records}
    \cup {Records[i].loc : i \in DOMAIN Records}
    \cup {<<"I", ",", " ", "W", " ">> \o ModifiedMarker
            \o <<" ", "2", "4", "/", "0", "3", "/", "1", "5">>,
          <<"I", ",", " ", "W">>}

\* data['직무분야'] goes through parseSectorsAndModifiedDate.
ParseSectors(text) ==
    /\ hist.nreq < MaxParseOps
    /\ LET r == parseSectorsAndModifiedDate(text)
       IN last' = Respond("sectors", 0, 0, 0, 0,
                          [input |-> text, sectorsArray |-> r.sectorsArray,
                           lastModifiedDate |-> r.lastModifiedDate])
    /\ hist' = [hist EXCEPT !.nreq = @ + 1]
    /\ UNCHANGED <<db, req>>

\* data['경력'] and data['지역'] go through parseMultiValueField.
ParseField(text) ==
    /\ hist.nreq < MaxParseOps
    /\ last' = Respond("field", 0, 0, 0, 0,
                       [input |-> text, sectorsArray |-> parseMultiValueField(text),
                        lastModifiedDate |-> Null])
    /\ hist' = [hist EXCEPT !.nreq = @ + 1]
    /\ UNCHANGED <<db, req>>

ParseNext == \E text \in FieldTexts : ParseSectors(text) \/ ParseField(text)

\* The parsers over field texts.
ParseSpec == Init /\ [][ParseNext]_vars

(***************************************************************************)
(* GET /recommendations/popular: the postings that have been viewed, the   *)
(* most viewed first.                                                      *)
(***************************************************************************)
\* ORDER BY j.views DESC, RAND(): rows of one view count come in a random
\* order, here one of the two orders of their posting ids.
TieOrders == {"ascending", "descending"}

PopularBefore(a, b, tie) ==
    \/ a.views > b.views
    \/ /\ a.views = b.views
       /\ IF tie = "ascending" THEN a.job_posting_id < b.job_posting_id
          ELSE a.job_posting_id > b.job_posting_id

PopularOrdered(rows, tie) ==
    [i \in 1..Cardinality(rows) |->
        CHOOSE a \in rows : Cardinality({b \in rows : PopularBefore(b, a, tie)}) = i - 1]

\* The query: JOIN companies, WHERE j.views > 0, GROUP BY j.job_posting_id,
\* ORDER BY, LIMIT ? OFFSET ?; rows are [job_posting_id, views].
TopJobs(d, offset, tie) ==
    LimitOffset(
        PopularOrdered({[job_posting_id |-> j.job_posting_id, views |-> j.views] :
                           j \in {x \in d.job_postings :
                                    /\ \E c \in d.companies : c.id = x.company_id
                                    /\ x.views > 0}}, tie),
        PAGE_SIZE, offset)

\* router.get('/popular'): [code, rows, pagination]; totalItems is
\* topJobs.length, the number of rows the LIMIT let through.
popular(d, pageParam, tie) ==
    LET page == PageOrFirst(pageParam)
        offset == (page - 1) * PAGE_SIZE
        topJobs == IF page < 1 THEN <<>> ELSE TopJobs(d, offset, tie)
        totalItems == Len(topJobs)
        pagination == [currentPage |-> page, totalPages |-> Ceil(totalItems, PAGE_SIZE),
                       pageSize |-> PAGE_SIZE, totalItems |-> totalItems]
    IN IF page < 1 THEN [code |-> 400, rows |-> <<>>, pagination |-> NoPagination]
       ELSE IF totalItems = 0
            THEN [code |-> 404, rows |-> <<>>, pagination |-> NoPagination]
       ELSE IF page > pagination.totalPages
            THEN [code |-> 400, rows |-> <<>>, pagination |-> NoPagination]
       ELSE [code |-> 200, rows |-> topJobs, pagination |-> pagination]

\* View counts of the stored postings, by posting id: all viewed, each a
\* different number of times; all viewed once; three in four viewed; none.
ViewPatterns == {"distinct", "once", "some", "none"}

ViewsOf(pattern, id) ==
    CASE pattern = "distinct" -> id
      [] pattern = "once" -> 1
      [] pattern = "some" -> id % 4
      [] OTHER -> 0

\* The databases the route reads: 3, 20, 21 and 41 postings.
PopularDBs ==
    {[d EXCEPT !.job_postings =
         {[j EXCEPT !.views = ViewsOf(pattern, j.job_posting_id)] : j \in @}] :
       d \in {BulkDB(ListSeedDB, n) : n \in BulkSizes}, pattern \in ViewPatterns}

InitPopular ==
    /\ db \in PopularDBs
    /\ req = [s \in Slots |-> Idle]
    /\ last = NoResponse
    /\ hist = NoHistory

\* GET /recommendations/popular?page=
GetPopular(page, tie) ==
    /\ hist.nreq < MaxPopularOps
    /\ LET r == popular(db, page, tie)
       IN last' = Respond("popular", 0, 0, page, r.code,
                          [rows |-> r.rows, pagination |-> r.pagination])
    /\ hist' = [hist EXCEPT !.nreq = @ + 1]
    /\ UNCHANGED <<db, req>>

PopularNext == \E page \in ListPages, tie \in TieOrders : GetPopular(page, tie)

\* The popularity-based recommendations over stored postings.
PopularSpec == InitPopular /\ [][PopularNext]_vars

(***************************************************************************)
(* GET /jobs/:id over databases with more postings, for the related        *)
(* postings of a detail read.                                              *)
(***************************************************************************)
\* Databases for the related postings: the three postings of the list's
\* seeded database, alone or followed by 2 or 6 postings of the first
\* company that carry one sector each.
RelatedSizes == {0, 2, 6}

InitRelated ==
    /\ db \in {BulkDB(ListSeedDB, n) : n \in RelatedSizes}
    /\ req = [s \in Slots |-> Idle]
    /\ last = NoResponse
    /\ hist = NoHistory

\* Detail reads over these databases.
RelatedSpec == InitRelated /\ [][ViewNext]_vars

(***************************************************************************)
(* Applications, bookmarks and preference-based recommendations of the     *)
(* same users, over the seeded database.                                   *)
(***************************************************************************)
\* Another request may arrive.
MoreRequests == hist.nreq < MaxExclusionOps

ExclusionNext ==
    \/ \E s \in Slots, u \in Users, j \in SeededJobs :
          MoreRequests /\ PostApplications_Select(s, u, j)
    \/ \E s \in Slots : PostApplications_Write(s)
    \/ \E s \in Slots, u \in Users, id \in ApplicationIds :
          MoreRequests /\ DeleteApplications_Select(s, u, id)
    \/ \E s \in Slots : DeleteApplications_Update(s)
    \/ \E s \in Slots, u \in Users, j \in SeededJobs :
          MoreRequests /\ PostBookmarks_Select(s, u, j)
    \/ \E s \in Slots : PostBookmarks_Write(s)
    \/ \E u \in Users : RecommendRequest(u, 1, MaxExclusionOps)

ExclusionSpec == InitSeeded /\ [][ExclusionNext]_vars

(***************************************************************************)
(* Properties of the /jobs routes.                                         *)
(***************************************************************************)
\* This step sent a response (or logged a record's outcome) of operation op.
Responded(op) == last'.n = last.n + 1 /\ last'.op = op

\* The posting with this id, as a set of at most one row.
JobPosting(d, id) == RowsWhere(d.job_postings, "job_posting_id", id)

\* C1: ownership enforcement on update.  Whenever a caller other than the
\* owning user sends PUT /jobs/:id with at least one updatable field, the
\* response is 403 Forbidden and the whole database is as before.
C1_UpdateByNonOwnerForbidden ==
    [][(/\ Responded("put")
        /\ PutBodies[last'.arg] # NoFields
        /\ \E r \in JobPosting(db, last'.id) :
              r.user_id \in Users /\ r.user_id # last'.user)
       => (last'.code = 403 /\ db' = db)]_vars

\* C2: DELETE /jobs/:id answers 404 when no posting has the id and 403 when
\* the posting's user_id is not the caller's, leaving the postings as they
\* were in both cases; for the owner it answers 200 and removes exactly that
\* posting.
C2_DeleteOutcomes ==
    [][Responded("delete") =>
         LET job == JobPosting(db, last'.id)
         IN /\ job = {} => (last'.code = 404 /\ db' = db)
            /\ (\E r \in job : r.user_id # last'.user) => (last'.code = 403 /\ db' = db)
            /\ (\E r \in job : r.user_id = last'.user) =>
                  /\ last'.code = 200
                  /\ db'.job_postings = db.job_postings \ job
                  /\ JobPosting(db', last'.id) = {}]_vars

\* C2, its cases: a user's posting survived another user's delete, which was
\* answered 403.
C2_Witness ==
    /\ last.op = "delete" /\ last.code = 403
    /\ \E r \in JobPosting(db, last.id) : r.user_id \in Users /\ r.user_id # last.user


(***************************************************************************)
(* Properties of POST /bookmarks.                                          *)
(***************************************************************************)
\* C3: toggle parity.  Starting without bookmarks, when the toggles of one
\* (user, posting) pair do not overlap, the pair's bookmark is present iff
\* the number of its successful toggles so far is odd, whatever was toggled
\* for other pairs.
C3_ToggleParity ==
    \A u \in Users, j \in SeededJobs :
        (SelectBookmarks(db, u, j) # {}) <=> (hist.toggles[<<u, j>>] % 2 = 1)

\* C3, its cases: a pair toggled three times has its bookmark, another pair
\* on the same posting was toggled twice meanwhile and has none.
C3_Witness ==
    /\ hist.toggles[<<1, 1>>] = 3 /\ SelectBookmarks(db, 1, 1) # {}
    /\ hist.toggles[<<2, 1>>] = 2 /\ SelectBookmarks(db, 2, 1) = {}

\* C4: bookmark uniqueness.  In every state, interleaved toggles included,
\* the bookmarks table holds at most one row per (user, posting).
C4_BookmarkUnique ==
    \A u \in Users, j \in SeededJobs : Cardinality(SelectBookmarks(db, u, j)) <= 1

\* C4, its cases: two toggles of one pair both read "no bookmark"; one
\* inserted its row and the other's INSERT was refused (500).
C4_Witness ==
    /\ last.op = "toggle" /\ last.code = 500
    /\ Cardinality(SelectBookmarks(db, last.user, last.id)) = 1

(***************************************************************************)
(* Properties of /applications.                                            *)
(***************************************************************************)
\* The application row with this id, as a set of at most one row.
Application(d, id) == RowsWhere(d.applications, "application_id", id)

\* C5: re-activation.  With requests issued one at a time: an apply by a user
\* without an application for the posting is answered 201 and creates the
\* pair's only row, in status applying; the user's cancel of an applying
\* application is answered 200 and leaves it cancelled; an apply over the
\* user's cancelled application is answered 200 with that application's id,
\* leaves that same row in status applying, and the pair still has one row.
C5_Reactivation ==
    [][/\ (Responded("apply") /\ last'.id # 0) =>
            LET existing == SelectApplications(db, last'.user, last'.id)
                after == SelectApplications(db', last'.user, last'.id)
            IN /\ existing = {} =>
                    /\ last'.code = 201
                    /\ after = {[application_id |-> last'.data, user_id |-> last'.user,
                                 job_posting_id |-> last'.id, status |-> Applying]}
               /\ \A r \in existing : r.status = Cancelled =>
                    /\ last'.code = 200
                    /\ last'.data = r.application_id
                    /\ after = {[r EXCEPT !.status = Applying]}
       /\ Responded("cancel") =>
            \A r \in Application(db, last'.id) :
                (r.user_id = last'.user /\ r.status = Applying) =>
                    /\ last'.code = 200
                    /\ Application(db', last'.id) = {[r EXCEPT !.status = Cancelled]}
      ]_vars

\* C5, its cases: the third response of a run re-activated application 2 of
\* user 1 for posting 1, which the run's first request created and its second
\* cancelled.
C5_Witness ==
    /\ last.n = 3 /\ last.op = "apply" /\ last.code = 200 /\ last.data = 2
    /\ SelectApplications(db, 1, 1)
         = {[application_id |-> 2, user_id |-> 1, job_posting_id |-> 1,
             status |-> Applying]}

\* C6: application uniqueness.  In every state, interleaved requests
\* included, the applications table holds at most one row per (user, posting).
C6_ApplicationUnique ==
    \A u \in Users, j \in SeededJobs : Cardinality(SelectApplications(db, u, j)) <= 1

\* C6, its cases: two applies of one pair both read "no application"; one
\* inserted its row and the other's INSERT was refused (500).
C6_Witness ==
    /\ last.op = "apply" /\ last.code = 500
    /\ Cardinality(SelectApplications(db, last.user, last.id)) = 1


\* This step is the arrival of a request op(user, arg): it is either
\* answered at once or parked in a slot until its second round trip.
Arrived(op, u, arg) ==
    /\ hist'.nreq = hist.nreq + 1
    /\ \/ Responded(op) /\ last'.user = u /\ last'.id = arg
       \/ \E s \in Slots : /\ req[s] = Idle
                           /\ req'[s].op = op /\ req'[s].user = u /\ req'[s].arg = arg

\* C7: status transitions.  No step removes an application row or changes
\* its user or posting; a step changes a row's status only from applying to
\* cancelled, as the 200 answer to a cancel of that row by its own user, or
\* from cancelled to applying, as the 200 answer to that user's apply for
\* that posting; a new row is in status applying and is the 201 answer to its
\* user's apply.  An apply that finds the caller's application applying,
\* hired or rejected is answered 400, and a cancel that finds no application
\* of the caller with that id, or one not in status applying, is answered 404
\* or 400, each with every application row unchanged.
C7_StatusTransitions ==
    [][/\ \A r \in db.applications :
            \E q \in Application(db', r.application_id) :
                /\ q.user_id = r.user_id /\ q.job_posting_id = r.job_posting_id
                /\ \/ q.status = r.status
                   \/ /\ r.status = Applying /\ q.status = Cancelled
                      /\ Responded("cancel") /\ last'.code = 200
                      /\ last'.id = r.application_id /\ last'.user = r.user_id
                   \/ /\ r.status = Cancelled /\ q.status = Applying
                      /\ Responded("apply") /\ last'.code = 200
                      /\ last'.id = r.job_posting_id /\ last'.user = r.user_id
       /\ \A q \in db'.applications :
            Application(db, q.application_id) = {} =>
                /\ q.status = Applying
                /\ Responded("apply") /\ last'.code = 201
                /\ last'.id = q.job_posting_id /\ last'.user = q.user_id
       /\ \A u \in Users, j \in SeededJobs :
            (/\ Arrived("apply", u, j)
             /\ \E r \in SelectApplications(db, u, j) :
                   r.status \in {Applying, Hired, Rejected})
            => (Responded("apply") /\ last'.code = 400
                /\ db'.applications = db.applications)
       /\ \A u \in Users, id \in ApplicationIds :
            (/\ Arrived("cancel", u, id)
             /\ \A r \in Application(db, id) : r.user_id # u \/ r.status # Applying)
            => (Responded("cancel") /\ last'.code \in {400, 404}
                /\ db'.applications = db.applications)
      ]_vars

\* C7, its cases: the latest response refused (400) the cancel of a decided
\* (hired or rejected) application by its own user, and an application that
\* went through applying, cancelled and applying again exists.
C7_Witness ==
    /\ last.op = "cancel" /\ last.code = 400
    /\ \E r \in Application(db, last.id) :
          r.user_id = last.user /\ r.status \in {Hired, Rejected}
    /\ \E r \in db.applications : r.application_id = 2 /\ r.status = Cancelled


(***************************************************************************)
(* Properties of the batch path and of the dimension tables.               *)
(***************************************************************************)
\* The postings that carry this link.
PostingsWithLink(d, link) == RowsWhere(d.job_postings, "link", link)

\* C8: dedup by link hash in the batch path.  After every ingested record
\* no two posting rows have the same link or the same link hash; a record
\* whose link is already stored adds no posting row and its ingestion is not
\* reported as an error.
C8_DedupByLinkHash ==
    [][Responded("insertData") =>
         LET data == Records[last'.arg]
         IN /\ \A p, q \in db'.job_postings :
                  (p.link = q.link \/ p.link_hash = q.link_hash) => p = q
            /\ PostingsWithLink(db, data.link) # {} =>
                  /\ {p.job_posting_id : p \in db'.job_postings}
                       = {p.job_posting_id : p \in db.job_postings}
                  /\ last'.code = 0]_vars

\* C8, its cases: the latest record was ingested without error over a stored
\* posting with its link and a different title, and one posting has the link.
C8_Witness ==
    /\ last.op = "insertData" /\ last.code = 0
    /\ \E p \in db.job_postings :
          /\ PostingsWithLink(db, Records[last.arg].link) = {p}
          /\ p.title # Records[last.arg].title

\* The junction rows of a posting, per junction table.
Associations(d, id) ==
    [t \in {"job_posting_experiences", "job_posting_locations", "job_posting_sectors",
            "job_posting_employment_types"} |->
        {r.ref_id : r \in RowsWhere(d[t], "job_posting_id", id)}]

\* C9: first record wins.  Ingesting a record whose link is that of a stored
\* posting leaves that posting's row and its experience, location, sector
\* and employment-type association sets exactly as they were.
C9_SecondIngestionIsNoOp ==
    [][Responded("insertData") =>
         \A p \in PostingsWithLink(db, Records[last'.arg].link) :
            /\ p \in db'.job_postings
            /\ Associations(db', p.job_posting_id) = Associations(db, p.job_posting_id)
      ]_vars

\* The labels the inputs of the model name, per dimension table.
Labels(table) ==
    CASE table = "companies" -> {"Acme", "Beta", "Gamma"}
      [] table = "educations" -> {"BSc", "MSc"}
      [] table = "employment_types" -> {"Full", "Part"}
      [] table = "experiences" -> {<<"N">>, <<"X">>}
      [] table = "locations" -> {<<"S">>, <<"B">>, <<"D">>}
      [] table = "sectors" -> {<<"I">>, <<"W">>, <<"Q">>}

\* In database d, resolving label L of a table through resolve (either
\* path) yields a table with exactly one row for L and returns that row's
\* id; if L had a row, its id is returned and the table is as before; a
\* second resolve, through either path, returns the same id.
ResolvesToOneRow(d, table, L, r) ==
    /\ RowsWhere(r.db[table], "name", L) = {[id |-> r.id, name |-> L]}
    /\ \A x \in RowsWhere(d[table], "name", L) : r.id = x.id /\ r.db = d
    /\ ResolveBatch(r.db, table, L) = [db |-> r.db, id |-> r.id]
    /\ UpsertDim(r.db, table, L) = [db |-> r.db, id |-> r.id]

DimensionsOk(d) ==
    \A table \in DimTables : \A L \in Labels(table) :
        /\ Cardinality(RowsWhere(d[table], "name", L)) <= 1
        /\ ResolvesToOneRow(d, table, L, ResolveBatch(d, table, L))
        /\ ResolvesToOneRow(d, table, L, UpsertDim(d, table, L))

\* C10: idempotent dimension resolution.  In every state reached through
\* batch ingestion and the /jobs routes, each dimension table holds at most
\* one row per label, a resolve of any label through the batch path or the
\* API path returns the id of the label's single row (creating it when
\* absent), and no step removes or renumbers a dimension row.
C10_IdempotentResolution ==
    [][/\ DimensionsOk(db) /\ DimensionsOk(db')
       /\ \A table \in DimTables : db[table] \subseteq db'[table]]_vars

\* C10, its cases: company "Acme" was resolved by the batch path (record 1)
\* and then by the API path (create body 1), and has one row.
C10_Witness ==
    /\ last.op = "create" /\ last.code = 201 /\ last.arg = 1
    /\ \E p \in db.job_postings : p.user_id = NullId /\ p.title = "Backend"
    /\ Cardinality(RowsWhere(db.companies, "name", "Acme")) = 1


(***************************************************************************)
(* Properties of user-submitted creation and of update.                    *)
(***************************************************************************)
\* C11: duplicate user-submitted posting.  Whenever POST /jobs/create
\* carries a title and a link equal, spaces removed, to those of a stored
\* posting, the response is 409 Conflict and the request adds no posting.
C11_DuplicateCreateIsConflict ==
    [][(/\ Responded("create")
        /\ SelectDuplicates(db, CreateBodies[last'.arg].title,
                            CreateBodies[last'.arg].link) # {})
       => (last'.code = 409 /\ db'.job_postings = db.job_postings)]_vars


\* C12: correct references on creation.  After every successful (201)
\* POST /jobs/create by user U with companyName C, educationLevel E and
\* employmentType T, the created posting is owned by U, its company_id is
\* the id of the companies row named C, its education_id the id of the
\* educations row labelled E and its employment_type_id the id of the
\* employment_types row named T.
C12_CreateReferences ==
    [][(Responded("create") /\ last'.code = 201) =>
         LET body == CreateBodies[last'.arg]
         IN \E p \in JobPosting(db', last'.id) :
               /\ p.user_id = last'.user
               /\ [id |-> p.company_id, name |-> body.companyName] \in db'.companies
               /\ [id |-> p.education_id, name |-> body.educationLevel] \in db'.educations
               /\ [id |-> p.employment_type_id, name |-> body.employmentType]
                     \in db'.employment_types]_vars


\* The ids of the rows of a dimension table that carry one of these names.
IdsOf(d, table, names) ==
    {r.id : r \in {x \in d[table] : \E k \in DOMAIN names : names[k] = x.name}}

\* C13: atomic update.  A PUT /jobs/:id of a stored posting that is answered
\* 200 has applied every supplied field (title, link, deadline, salary; the
\* company, education and employment-type references point to the rows named
\* in the request), has replaced the location and sector associations by the
\* supplied lists and has stamped last_modified_date; one answered otherwise
\* leaves the posting row and its junction rows as they were before it.
C13_AtomicUpdate ==
    [][Responded("put") =>
         LET body == PutBodies[last'.arg]
             id == last'.id
         IN \A p \in JobPosting(db, id) :
              IF last'.code = 200
              THEN \E q \in JobPosting(db', id) :
                     /\ body.title # "" => q.title = body.title
                     /\ body.link # "" => q.link = body.link
                     /\ body.deadline # "" => q.deadline = body.deadline
                     /\ body.salary # "" => q.salary = body.salary
                     /\ body.companyName # "" =>
                          [id |-> q.company_id, name |-> body.companyName] \in db'.companies
                     /\ body.educationLevel # "" =>
                          [id |-> q.education_id, name |-> body.educationLevel]
                             \in db'.educations
                     /\ body.employmentType # "" =>
                          [id |-> q.employment_type_id, name |-> body.employmentType]
                             \in db'.employment_types
                     /\ body.locationNames.present =>
                          /\ Associations(db', id).job_posting_locations
                               = IdsOf(db', "locations", body.locationNames.names)
                          /\ Cardinality(IdsOf(db', "locations", body.locationNames.names))
                               = Len(body.locationNames.names)
                     /\ body.sectorNames.present =>
                          /\ Associations(db', id).job_posting_sectors
                               = IdsOf(db', "sectors", body.sectorNames.names)
                          /\ Cardinality(IdsOf(db', "sectors", body.sectorNames.names))
                               = Len(body.sectorNames.names)
                     /\ q.last_modified_date = CurrentTimestamp
              ELSE /\ JobPosting(db', id) = {p}
                   /\ Associations(db', id) = Associations(db, id)]_vars

\* C13, its cases: an update that carried a new title and a link held by
\* another posting failed (500) at the link, after the title's statement, and
\* the posting has neither.
C13_Witness ==
    /\ last.op = "put" /\ last.code = 500 /\ PutBodies[last.arg].title = "Moved"
    /\ \E p \in JobPosting(db, last.id) : p.title # "Moved" /\ p.link # "https://b"
    /\ PostingsWithLink(db, "https://b") # {}


\* The junction rows of the whole database, per junction table.
JunctionRows(d) ==
    [t \in {"job_posting_experiences", "job_posting_locations", "job_posting_sectors",
            "job_posting_employment_types"} |-> d[t]]

\* C14: atomic creation.  A POST /jobs/create that is not answered 201
\* leaves no posting row and no junction row behind: the postings and the
\* junction tables are as they were before the request.
C14_AtomicCreation ==
    [][(Responded("create") /\ last'.code # 201) =>
         /\ db'.job_postings = db.job_postings
         /\ JunctionRows(db') = JunctionRows(db)]_vars


\* C15: link-hash invariant.  In every state every posting's link_hash is
\* the SHA-256 hex digest of its link.
C15_LinkHashOfLink ==
    \A p \in db.job_postings : p.link_hash = Sha256Hex(p.link)


\* C16: employment type kept in sync.  In every state, every posting whose
\* employment_type_id is not NULL has the junction row
\* (posting, that employment type) in job_posting_employment_types.
C16_EmploymentTypeInSync ==
    \A p \in db.job_postings :
        p.employment_type_id # NullId =>
            [job_posting_id |-> p.job_posting_id, ref_id |-> p.employment_type_id]
                \in db.job_posting_employment_types


(***************************************************************************)
(* Properties of the read routes.                                          *)
(***************************************************************************)
\* The view count of each stored posting among ReadIds.
Views(d) == [j \in {r.job_posting_id : r \in d.job_postings} |->
                (CHOOSE r \in d.job_postings : r.job_posting_id = j).views]

\* C17: view counter.  Under concurrent readers: in every state each
\* posting's view count is its initial value plus the number of successful
\* (200) detail reads of it; a step that answers a detail read with 200
\* raises that posting's count by exactly 1 and no other's, and any other
\* step, the 404 answer for an id without posting included, changes no
\* count; an id without posting is answered 404.
C17_ViewCounter ==
    /\ [](\A r \in db.job_postings :
            r.views = hist.views0[r.job_posting_id] + hist.reads[r.job_posting_id])
    /\ [][/\ (Responded("get") /\ last'.code = 200) =>
               Views(db') = [Views(db) EXCEPT ![last'.id] = @ + 1]
          /\ ~(Responded("get") /\ last'.code = 200) => Views(db') = Views(db)
          /\ (Responded("get") /\ JobPosting(db, last'.id) = {}) => last'.code = 404
         ]_vars

\* C17, its cases: two reads of posting 1 have been answered 200; the
\* posting, which started at 4 views, has 6, and the latest response is the
\* 404 for the missing id 3.
C17_Witness ==
    /\ hist.views0[1] = 4 /\ hist.reads[1] = 2 /\ Views(db)[1] = 6
    /\ last.op = "get" /\ last.code = 404 /\ last.id = 3


\* The postings that satisfy every filter a body carries: linked to the
\* location, to the experience level, to the sector; the keyword within the
\* title or the company name; the company text within the company name.
RECURSIVE IsInfix(_, _)
IsInfix(word, text) ==
    \/ Len(word) <= Len(text) /\ SubSeq(text, 1, Len(word)) = word
    \/ text # <<>> /\ IsInfix(word, Tail(text))

CompanyName(d, j) == Chars((CHOOSE c \in d.companies : c.id = j.company_id).name)

Satisfying(d, body) ==
    {j.job_posting_id : j \in {j \in d.job_postings :
        /\ body.location # 0 =>
              [job_posting_id |-> j.job_posting_id, ref_id |-> body.location]
                 \in d.job_posting_locations
        /\ body.experience # 0 =>
              [job_posting_id |-> j.job_posting_id, ref_id |-> body.experience]
                 \in d.job_posting_experiences
        /\ body.sector # 0 =>
              [job_posting_id |-> j.job_posting_id, ref_id |-> body.sector]
                 \in d.job_posting_sectors
        /\ body.keyword # <<>> =>
              \/ IsInfix(body.keyword, Chars(j.title))
              \/ IsInfix(body.keyword, CompanyName(d, j))
        /\ body.company # <<>> => IsInfix(body.company, CompanyName(d, j))}}

\* C18: outcome of the list query.  With N the number of postings that
\* match the body's filters and p its page: p <= 0 is answered 400; N = 0
\* with p >= 1 is answered 404; N >= 1 with p > ceil(N/20) is answered 400;
\* otherwise the answer is 200 with at most 20 postings and pagination
\* {currentPage = p, totalPages = ceil(N/20), pageSize = 20, totalItems = N}.
C18_ListOutcome ==
    last.op = "list" =>
        LET body == last.data.body
            N == Cardinality({row.job_posting_id : row \in ListBaseQuery(db, body)})
            p == body.page
            pages == IF N % 20 = 0 THEN N \div 20 ELSE N \div 20 + 1
        IN CASE p <= 0 -> last.code = 400
             [] p >= 1 /\ N = 0 -> last.code = 404
             [] p >= 1 /\ N >= 1 /\ p > pages -> last.code = 400
             [] OTHER -> /\ last.code = 200
                         /\ Len(last.data.rows) <= 20
                         /\ last.data.pagination
                              = [currentPage |-> p, totalPages |-> pages,
                                 pageSize |-> 20, totalItems |-> N]

\* C18, its cases: 21 postings match and page 2, the last one, was answered
\* with its single posting.
C18_Witness ==
    /\ last.op = "list" /\ last.code = 200
    /\ last.data.pagination.totalItems = 21 /\ last.data.pagination.currentPage = 2
    /\ Len(last.data.rows) = 1


\* The rows of pages 1..n of the list for a body, page after page.
RECURSIVE AllPages(_, _, _)
AllPages(d, body, n) ==
    IF n = 0 THEN <<>>
    ELSE AllPages(d, body, n - 1) \o listJobs(d, [body EXCEPT !.page = n]).rows

\* C19: conjunctive filters.  For every body the list route has answered,
\* the postings returned over all pages of that body's filters are exactly
\* the postings that satisfy every filter sent (the keyword within the title
\* or the company name), each once; a 200 answer's totalItems is their
\* number, and when there are none a page >= 1 is answered 404.
C19_ConjunctiveFilters ==
    last.op = "list" =>
        LET body == last.data.body
            sat == Satisfying(db, body)
            all == AllPages(db, body, Ceil(Cardinality(sat), PAGE_SIZE))
        IN /\ {all[i] : i \in DOMAIN all} = sat
           /\ Len(all) = Cardinality(sat)
           /\ last.code = 200 => last.data.pagination.totalItems = Cardinality(sat)
           /\ (sat = {} /\ body.page >= 1) => last.code = 404


\* The sectors of a posting.
SectorsOf(d, id) == {r.ref_id : r \in RowsWhere(d.job_posting_sectors, "job_posting_id", id)}

\* The preferred sectors of a user: the sectors of every posting the user
\* has bookmarked or applied to.
PreferredSectors(d, u) ==
    UNION {SectorsOf(d, j.job_posting_id) : j \in {x \in d.job_postings :
        \/ \E b \in d.bookmarks : b.user_id = u /\ b.job_posting_id = x.job_posting_id
        \/ \E a \in d.applications : a.user_id = u /\ a.job_posting_id = x.job_posting_id}}

\* The rows of pages 1..n of a user's recommendations, page after page.
RECURSIVE AllRecommended(_, _, _)
AllRecommended(d, u, n) ==
    IF n = 0 THEN <<>>
    ELSE AllRecommended(d, u, n - 1) \o recommend(d, u, n).rows

\* C20: preference-based recommendation set.  For the user of every
\* answered request whose preferred sectors are not empty, the postings
\* returned over all pages are exactly the postings that have a preferred
\* sector and no application of the user (of any status), each once; the
\* answered page itself holds none the user has applied to.
C20_RecommendationSet ==
    last.op = "recommend" =>
        LET u == last.user
            S == PreferredSectors(db, u)
            expected == {j.job_posting_id : j \in {x \in db.job_postings :
                            /\ SectorsOf(db, x.job_posting_id) \cap S # {}
                            /\ ~\E a \in db.applications :
                                  a.user_id = u /\ a.job_posting_id = x.job_posting_id}}
            all == AllRecommended(db, u, Ceil(Cardinality(expected), PAGE_SIZE))
        IN S # {} =>
             /\ {all[i] : i \in DOMAIN all} = expected
             /\ Len(all) = Cardinality(expected)
             /\ \A i \in DOMAIN last.data.rows :
                   ~\E a \in db.applications :
                      a.user_id = u /\ a.job_posting_id = last.data.rows[i]

\* C20, its cases: user 1, with a cancelled application among the stored
\* ones, was answered page 2 of more than 20 recommendations.
C20_Witness ==
    /\ last.op = "recommend" /\ last.user = 1 /\ last.code = 200
    /\ last.data.pagination.currentPage = 2 /\ Len(last.data.rows) > 0
    /\ \E a \in db.applications : a.user_id = 1 /\ a.status = Cancelled


(***************************************************************************)
(* Properties of the recommendation routes and of the parsers.             *)
(***************************************************************************)
\* An annual figure: digits, with or without commas between them, then the
\* unit suffix, with or without spaces around the number.
IsAnnualFigure(text) ==
    /\ EndsWith(text, UnitSuffix)
    /\ LET number == Trim(SubSeq(text, 1, Len(text) - Len(UnitSuffix)))
       IN /\ \A i \in DOMAIN number : number[i] \in Digits \cup {","}
          /\ \E i \in DOMAIN number : number[i] \in Digits

\* The number an annual figure states.
RECURSIVE AnnualValue(_, _)
AnnualValue(text, acc) ==
    IF text = <<>> THEN acc
    ELSE IF Head(text) \in Digits
         THEN AnnualValue(Tail(text), 10 * acc + DigitVal(Head(text)))
    ELSE AnnualValue(Tail(text), acc)

\* C21: salary-based recommendation.  The postings GET /recommendations/pay
\* returns on its first page (fewer than 20 postings are stored) are exactly
\* those whose salary is an annual figure of at least 1000: "5,000 MAN WON"
\* counts as 5000 and is returned, the placeholder text and a figure with a
\* monthly label are not; and the rows come with their values non-increasing.
C21_SalaryRecommendation ==
    (last.op = "pay" /\ PageOrFirst(last.arg) = 1) =>
        LET rows == IF last.code = 200 THEN last.data.rows ELSE <<>>
            expected == {j.job_posting_id : j \in {x \in db.job_postings :
                            /\ IsAnnualFigure(x.salary)
                            /\ AnnualValue(x.salary, 0) >= 1000}}
        IN /\ {rows[i].job_posting_id : i \in DOMAIN rows} = expected
           /\ \A i, k \in DOMAIN rows :
                 i < k => AnnualValue(rows[i].salary, 0) >= AnnualValue(rows[k].salary, 0)


\* The paths that need no credentials.
OpenPath(path) ==
    \E p \in {<<"/auth", "/register">>, <<"/auth", "/login">>, <<"/api-docs">>} :
       Len(path) >= Len(p) /\ \A i \in DOMAIN p : path[i] = p[i]

\* The header is missing or does not begin with "Bearer ".
NotBearer(authHeader) ==
    \/ Len(authHeader) < 2
    \/ authHeader[1] # "Bearer"
    \/ authHeader[2] # " "

\* The user whose valid token follows "Bearer ", 0 when what follows is not
\* a valid token.
TokenUser(authHeader) ==
    LET rest == SubSeq(authHeader, 3, Len(authHeader))
        token == IF \E i \in DOMAIN rest : rest[i] = " "
                 THEN SubSeq(rest, 1, (CHOOSE i \in DOMAIN rest :
                                          rest[i] = " " /\ \A k \in 1..(i - 1) : rest[k] # " ") - 1)
                 ELSE rest
    IN IF token = <<"T1">> THEN 1 ELSE IF token = <<"T2">> THEN 2 ELSE 0

Tokens(text, delims) ==
    LET cuts == {0, Len(text) + 1} \cup {i \in DOMAIN text : text[i] \in delims}
        starts == cuts \ {Len(text) + 1}
        Piece(c) == SubSeq(text, c + 1, (CHOOSE e \in cuts : e > c /\ \A x \in cuts : ~(c < x /\ x < e)) - 1)
        kept == {c \in starts : Trim(Piece(c)) \notin {<<>>, <<"OE">>}}
    IN [i \in 1..Cardinality(kept) |->
          Trim(Piece(CHOOSE c \in kept : Cardinality({x \in kept : x < c}) = i - 1))]

\* A marker begins at i: one of the two marker words, any spaces, and
\* dd/dd/dd.
MarkerAt(text, i) ==
    \E sp \in 0..Len(text) :
       /\ i + 2 + sp + 8 <= Len(text)
       /\ SubSeq(text, i, i + 2) \in {<<"SU", "JEONG", "IL">>, <<"DEUNG", "ROK", "IL">>}
       /\ \A k \in 1..sp : text[i + 2 + k] = " "
       /\ LET d == SubSeq(text, i + 3 + sp, i + 10 + sp)
          IN /\ \A k \in {1, 2, 4, 5, 7, 8} : d[k] \in Digits
             /\ d[3] = "/" /\ d[6] = "/"

\* C23: date-in-sector extraction.  For a sector field that contains a
\* marker (one of the two marker words, then YY/MM/DD), the parser returns
\* the date "20YY-MM-DD" of the first marker and the sectors of the text
\* with that marker removed; for a field without a marker it returns the
\* sectors of the text and no date.
C23_DateInSector ==
    last.op = "sectors" =>
        LET text == last.data.input
            marked == {i \in DOMAIN text : MarkerAt(text, i)}
        IN IF marked = {}
           THEN /\ last.data.lastModifiedDate = Null
                /\ last.data.sectorsArray = Tokens(text, {","})
           ELSE LET i == CHOOSE m \in marked : \A x \in marked : m <= x
                    sp == CHOOSE n \in 0..Len(text) :
                             /\ \A k \in 1..n : text[i + 2 + k] = " "
                             /\ text[i + 3 + n] # " "
                    d == SubSeq(text, i + 3 + sp, i + 10 + sp)
                IN /\ last.data.lastModifiedDate
                        = "20" \o d[1] \o d[2] \o "-" \o d[4] \o d[5] \o "-" \o d[7] \o d[8]
                   /\ last.data.sectorsArray
                        = Tokens(SubSeq(text, 1, i - 1)
                                   \o SubSeq(text, i + 11 + sp, Len(text)), {","})


\* C24: multi-value field parser.  Each of the two parsers of the
\* multi-value fields returns, for a text without a date marker, the pieces
\* of the text between commas and middle dots, trimmed, in order, none of
\* them empty and none the "etc." sentinel; the empty text yields the empty
\* list.
C24_MultiValueTokens ==
    (/\ last.op \in {"field", "sectors"}
     /\ \A i \in DOMAIN last.data.input : ~MarkerAt(last.data.input, i))
    => /\ last.data.sectorsArray = Tokens(last.data.input, {",", "MID"})
       /\ \A i \in DOMAIN last.data.sectorsArray :
             last.data.sectorsArray[i] \notin {<<>>, <<"OE">>}
       /\ last.data.input = <<>> => last.data.sectorsArray = <<>>


\* The view counts of the viewed postings, the highest first.
ViewsRanked(d) ==
    LET viewed == {j \in d.job_postings : j.views > 0}
    IN [i \in 1..Cardinality(viewed) |->
          (CHOOSE a \in viewed :
              Cardinality({b \in viewed :
                              \/ b.views > a.views
                              \/ b.views = a.views /\ b.job_posting_id < a.job_posting_id})
                 = i - 1).views]

\* C25: popularity-based recommendation, 20 per page.  With N postings of
\* view count > 0, every page p with 1 <= p <= ceil(N/20) is answered 200
\* with the postings of ranks (p-1)*20+1 .. min(p*20, N) by view count
\* descending, each a viewed posting listed once, and its pagination block
\* reports totalItems = N and totalPages = ceil(N/20).
C25_PopularPages ==
    last.op = "popular" =>
        LET ranked == ViewsRanked(db)
            N == Len(ranked)
            pages == IF N % 20 = 0 THEN N \div 20 ELSE N \div 20 + 1
            p == PageOrFirst(last.arg)
            first == (p - 1) * 20 + 1
            upto == IF p * 20 < N THEN p * 20 ELSE N
            rows == last.data.rows
        IN (1 <= p /\ p <= pages) =>
              /\ last.code = 200
              /\ [i \in DOMAIN rows |-> rows[i].views] = SubSeq(ranked, first, upto)
              /\ \A i, k \in DOMAIN rows :
                    i # k => rows[i].job_posting_id # rows[k].job_posting_id
              /\ \A i \in DOMAIN rows :
                    \E j \in db.job_postings :
                       /\ j.job_posting_id = rows[i].job_posting_id
                       /\ j.views = rows[i].views
              /\ last.data.pagination.totalItems = N
              /\ last.data.pagination.totalPages = pages


\* The postings related to posting id: the others of its company and the
\* others that share a sector with it.
RelatedTo(d, id) ==
    {x.job_posting_id : x \in {x \in d.job_postings :
        /\ x.job_posting_id # id
        /\ \E p \in JobPosting(d, id) :
              \/ x.company_id = p.company_id
              \/ SectorsOf(d, x.job_posting_id) \cap SectorsOf(d, id) # {}}}

\* C26: related postings of a detail read.  The related list GET /jobs/:id
\* returns for a posting P holds min(5, |Q|) postings, all of them in Q, the
\* set of the other postings of P's company or with a sector of P; P itself
\* is not among them.
C26_RelatedPostings ==
    (last.op = "get" /\ last.code = 200) =>
        LET Q == RelatedTo(db, last.id)
        IN /\ hist.related \subseteq Q
           /\ Cardinality(hist.related) = (IF Cardinality(Q) < 5 THEN Cardinality(Q) ELSE 5)
           /\ last.id \notin hist.related


\* C27: association replacement on update.  After a PUT /jobs/:id of a
\* stored posting that is answered 200, the posting's locations (sectors)
\* are exactly the dimension rows named in the request's locationNames
\* (sectorNames) when the request carries them; whatever the request does
\* not carry (title, link, deadline, salary, the company, education and
\* employment-type references, an association set) is as before, as are the
\* fields no request can name; last_modified_date is stamped.
C27_AssociationReplacement ==
    [][(Responded("put") /\ last'.code = 200) =>
         LET body == PutBodies[last'.arg]
             id == last'.id
             before == Associations(db, id)
             after == Associations(db', id)
         IN \A p \in JobPosting(db, id) :
              \E q \in JobPosting(db', id) :
                 /\ after.job_posting_locations
                      = (IF body.locationNames.present
                         THEN IdsOf(db', "locations", body.locationNames.names)
                         ELSE before.job_posting_locations)
                 /\ after.job_posting_sectors
                      = (IF body.sectorNames.present
                         THEN IdsOf(db', "sectors", body.sectorNames.names)
                         ELSE before.job_posting_sectors)
                 /\ after.job_posting_experiences = before.job_posting_experiences
                 /\ after.job_posting_employment_types = before.job_posting_employment_types
                 /\ body.title = "" => q.title = p.title
                 /\ body.link = "" => q.link = p.link
                 /\ body.deadline = "" => q.deadline = p.deadline
                 /\ body.salary = "" => q.salary = p.salary
                 /\ body.companyName = "" => q.company_id = p.company_id
                 /\ body.educationLevel = "" => q.education_id = p.education_id
                 /\ body.employmentType = "" => q.employment_type_id = p.employment_type_id
                 /\ q.user_id = p.user_id /\ q.views = p.views /\ q.link_hash = p.link_hash
                 /\ q.last_modified_date = CurrentTimestamp]_vars

\* C27, its cases: an update that named the one location "D" was answered
\* 200 for a posting that had other locations; the posting has that one
\* location, and its sectors, which the request did not name.
C27_Witness ==
    /\ last.op = "put" /\ last.code = 200
    /\ PutBodies[last.arg].locationNames = Names(<<<<"D">>>>)
    /\ ~PutBodies[last.arg].sectorNames.present
    /\ Associations(db, last.id).job_posting_locations = IdsOf(db, "locations", <<<<"D">>>>)
    /\ Cardinality(Associations(db, last.id).job_posting_locations) = 1
    /\ Associations(db, last.id).job_posting_sectors # {}
    /\ \E i \in DOMAIN Records :
          \E p \in JobPosting(db, last.id) :
             p.link = Records[i].link /\ Len(parseMultiValueField(Records[i].loc)) >= 2


\* C28: update of a missing posting.  A PUT /jobs/:id that carries at least
\* one field and whose id no stored posting has is answered 404, and the
\* database, dimension and junction tables included, is as before.
C28_UpdateMissingPosting ==
    [][(/\ Responded("put")
        /\ PutBodies[last'.arg] # NoFields
        /\ JobPosting(db, last'.id) = {})
       => (last'.code = 404 /\ db' = db)]_vars


\* The names of the rows of a dimension table one posting is linked to.
NamesOf(d, table, junction, id) ==
    {x.name : x \in {x \in d[table] :
        [job_posting_id |-> id, ref_id |-> x.id] \in d[junction]}}

\* C29: complete arrays under filters.  Every posting POST /jobs returns
\* carries all of the posting's location names and all of its sector names,
\* whichever filters the request sent.
C29_CompleteArrays ==
    (last.op = "list" /\ last.code = 200) =>
        \A i \in DOMAIN last.data.formattedRows :
           LET row == last.data.formattedRows[i]
           IN /\ row.locations
                   = NamesOf(db, "locations", "job_posting_locations", row.job_posting_id)
              /\ row.sectors
                   = NamesOf(db, "sectors", "job_posting_sectors", row.job_posting_id)


\* The user has an application row, of whatever status, for the posting.
HasApplied(u, j) ==
    \E a \in db.applications : a.user_id = u /\ a.job_posting_id = j

\* The posting is in no page of the user's recommendations, is not in the
\* response when the latest response is to that user's recommendations
\* request, and its sectors are among the sectors the recommendations are
\* drawn from.
Excluded(u, j) ==
    /\ \A n \in 1..Ceil(Cardinality(db.job_postings), PAGE_SIZE) :
          \A i \in DOMAIN recommend(db, u, n).rows : recommend(db, u, n).rows[i] # j
    /\ (last.op = "recommend" /\ last.user = u) =>
          \A i \in DOMAIN last.data.rows : last.data.rows[i] # j
    /\ SectorsOf(db, j) \subseteq UserSectors(db, u)

\* C30: exclusion persists across cancellation.  Once a user has applied to
\* a posting, in every later state reached by apply, cancel and bookmark
\* requests the user still has the application row, the posting is never
\* among the user's preference-based recommendations, cancelled or not, and
\* its sectors stay in the user's preferred sectors.
C30_ExclusionPersists ==
    \A u \in Users, j \in SeededJobs :
       [](HasApplied(u, j) => [](HasApplied(u, j) /\ Excluded(u, j)))

\* C30, its cases: a user's recommendations were answered with a posting
\* while the user's application for another posting of the same sector is
\* cancelled.
C30_Witness ==
    /\ last.op = "recommend" /\ last.code = 200 /\ Len(last.data.rows) >= 1
    /\ \E a \in db.applications :
          /\ a.user_id = last.user /\ a.status = Cancelled
          /\ SectorsOf(db, a.job_posting_id) \cap SectorsOf(db, last.data.rows[1]) # {}

====
